---- MODULE Spec2Model ----
(***************************************************************************)
(* Assessment generation and response submission of the communicare        *)
(* backend: the cooldown gate, the generation request with its LLM         *)
(* gateway retry loop, the answer validator and the response store.        *)
(*                                                                         *)
(* Conventions                                                             *)
(*  - Time is counted in hours; Date.now() is the variable now.            *)
(*  - A JavaScript number x is carried as the integer x * Scale, so that   *)
(*    fractional day counts (multiples of 1/Scale) are representable.      *)
(*  - A JavaScript value is a record [k, s, n, a]: k is its kind ("str",   *)
(*    "num", "arr", "null"), s its text, n its number, a its elements.     *)
(*  - Documents are records; a store is a sequence whose index is the _id. *)
(***************************************************************************)
EXTENDS Integers, Sequences, FiniteSets, TLC

(* ------------------------------ bounds -------------------------------- *)
MaxRequests == 2
MaxTextLen == 5
MaxBudget == 3
MaxCalls == 2
MaxStored == 4
MaxTime == 24
Scale == 2

(* -------------------------- program constants ------------------------- *)
maxRetries == 3
HoursPerDay == 24
CharsPerToken == 4
previousLimit == 3

HTTP_CODES ==
  [CREATED |-> 201, OK |-> 200, BAD_REQUEST |-> 400, FORBIDDEN |-> 403, NOT_FOUND |-> 404,
   CONFLICT |-> 409, INTERNAL_SERVER_ERROR |-> 500]

QUESTION_TYPES ==
  {"long_text", "single_choice", "multi_choice", "numeric", "rating_likert",
   "rating_numeric", "rating_slider", "rating_frequency"}

SEVERITY_LEVELS == {"low", "moderate", "high"}

(* ------------------------------ values -------------------------------- *)
Null == [k |-> "null", s |-> "", n |-> 0, a |-> <<>>]
Str(t) == [k |-> "str", s |-> t, n |-> 0, a |-> <<>>]
Num(x) == [k |-> "num", s |-> "", n |-> x, a |-> <<>>]
Whole(i) == Num(i * Scale)
Arr(xs) == [k |-> "arr", s |-> "", n |-> 0, a |-> xs]

Digits == <<"0", "1", "2", "3", "4", "5", "6", "7", "8", "9">>

RECURSIVE NatText(_)
NatText(i) ==
  IF i < 10 THEN Digits[i + 1] ELSE NatText(i \div 10) \o Digits[(i % 10) + 1]

\* String(x) of a number: the decimal text of an integer, and for a fraction
\* a text no integer has (whole part, then the numerator over Scale).
NumText(x) ==
  LET m == IF x < 0 THEN 0 - x ELSE x
      body == IF m % Scale = 0 THEN NatText(m \div Scale)
              ELSE NatText(m \div Scale) \o "+" \o NatText(m % Scale) \o "/" \o NatText(Scale)
  IN IF x < 0 THEN "-" \o body ELSE body

\* String(value) as used for option comparison
String(v) ==
  CASE v.k = "str" -> v.s
    [] v.k = "num" -> NumText(v.n)
    [] v.k = "null" -> "null"
    [] OTHER -> "array"

(* ------------------------------ errors -------------------------------- *)
NoError == [name |-> "", statusCode |-> 0, code |-> 0, message |-> ""]

createAppError(message, statusCode) ==
  [name |-> "Error", statusCode |-> statusCode, code |-> 0, message |-> message]

createBadRequestError(message) == createAppError(message, HTTP_CODES.BAD_REQUEST)
createForbiddenError(message) == createAppError(message, HTTP_CODES.FORBIDDEN)
createNotFoundError(message) == createAppError(message, HTTP_CODES.NOT_FOUND)
createConflictError(message) == createAppError(message, HTTP_CODES.CONFLICT)

\* new Error(message): no statusCode
PlainError(message) == [name |-> "Error", statusCode |-> 0, code |-> 0, message |-> message]
\* mongoose document validation failure
ValidationError(message) ==
  [name |-> "ValidationError", statusCode |-> 0, code |-> 0, message |-> message]
\* E11000 duplicate key error of a unique index
DuplicateKeyError(field) ==
  [name |-> "MongoServerError", statusCode |-> 0, code |-> 11000, message |-> field]

\* The HTTP status the global error handler answers with
errorHandler(err) ==
  LET e1 == IF err.name = "CastError" THEN createNotFoundError("Resource not found") ELSE err
      e2 == IF err.code = 11000 THEN createConflictError(err.message \o " already exists") ELSE e1
      e3 == IF err.name = "ValidationError"
            THEN createBadRequestError("Validation error") ELSE e2
  IN IF e3.statusCode # 0 THEN e3.statusCode ELSE HTTP_CODES.INTERNAL_SERVER_ERROR

(* ------------------------ questionnaire model ------------------------- *)
NoOptions == [defined |-> FALSE, items |-> <<>>]
Options(xs) == [defined |-> TRUE, items |-> xs]
Option(id, value) == [id |-> id, label |-> id, value |-> value]

Question(id, type, label, required, options, min, max) ==
  [id |-> id, type |-> type, label |-> label, required |-> required,
   options |-> options, min |-> min, max |-> max]

Answer(questionId, questionType, value) ==
  [questionId |-> questionId, questionType |-> questionType, value |-> value]

\* What a stored question reads back as: mongoose gives an array path its
\* (possibly empty) array and leaves min/max null when they were not given.
PersistQuestion(q) == [q EXCEPT !.options = Options(q.options.items)]

PersistQuestions(qs) == [i \in 1..Len(qs) |-> PersistQuestion(qs[i])]

(* --------------------------- answer validator ------------------------- *)
\* value.trim() for the texts of the model
Trim(t) == IF t \in {"", " ", "  "} THEN "" ELSE t

OptionTexts(question) ==
  {String(question.options.items[i].value) : i \in 1..Len(question.options.items)}

\* a lower bound that refuses the bound itself
BelowMin_Inclusive(answer, question) ==
  question.min.k = "num" /\ answer.value.n <= question.min.n

BelowMin(answer, question) == question.min.k = "num" /\ answer.value.n < question.min.n
AboveMax(answer, question) == question.max.k = "num" /\ answer.value.n > question.max.n

\* validateAnswer: the error text, "" when the answer is valid
validateAnswer(answer, question) ==
  IF answer.questionId # question.id THEN "Answer question ID does not match"
  ELSE IF answer.questionType # question.type
  THEN "Answer type mismatch for question " \o question.id
  ELSE CASE question.type = "long_text" ->
              IF answer.value.k # "str"
              THEN "Answer for " \o question.id \o " must be a string"
              ELSE IF question.required /\ Trim(answer.value.s) = ""
              THEN "Answer for " \o question.id \o " is required"
              ELSE ""
         [] question.type = "single_choice" ->
              IF answer.value.k # "str"
              THEN "Answer for " \o question.id \o " must be a single option"
              ELSE IF question.options.defined /\ String(answer.value) \notin OptionTexts(question)
              THEN "Invalid option for " \o question.id
              ELSE ""
         [] question.type = "multi_choice" ->
              IF answer.value.k # "arr"
              THEN "Answer for " \o question.id \o " must be an array"
              ELSE IF question.required /\ Len(answer.value.a) = 0
              THEN "At least one option required for " \o question.id
              ELSE IF question.options.defined
                      /\ \E i \in 1..Len(answer.value.a) :
                           String(answer.value.a[i]) \notin OptionTexts(question)
              THEN "Invalid option in " \o question.id
              ELSE ""
         [] question.type \in {"numeric", "rating_numeric"} ->
              IF answer.value.k # "num"
              THEN "Answer for " \o question.id \o " must be a number"
              ELSE IF BelowMin(answer, question)
              THEN "Answer for " \o question.id \o " must be at least " \o String(question.min)
              ELSE IF AboveMax(answer, question)
              THEN "Answer for " \o question.id \o " must be at most " \o String(question.max)
              ELSE ""
         [] question.type \in {"rating_likert", "rating_frequency"} ->
              IF answer.value.k # "str"
              THEN "Answer for " \o question.id \o " must be a string option"
              ELSE IF question.options.defined /\ String(answer.value) \notin OptionTexts(question)
              THEN "Invalid rating for " \o question.id
              ELSE ""
         [] question.type = "rating_slider" ->
              IF answer.value.k # "num"
              THEN "Answer for " \o question.id \o " must be a number"
              ELSE IF BelowMin(answer, question)
              THEN "Slider value for " \o question.id \o " must be at least " \o String(question.min)
              ELSE IF AboveMax(answer, question)
              THEN "Slider value for " \o question.id \o " must be at most " \o String(question.max)
              ELSE ""
         [] OTHER -> "Unknown question type: " \o question.type

NonEmptyText(m) == m # ""

\* questions.find(q => q.id === id): the index of the first match, 0 for none
FindQuestion(questions, id) ==
  IF \E i \in 1..Len(questions) : questions[i].id = id
  THEN CHOOSE i \in 1..Len(questions) :
         questions[i].id = id /\ \A j \in 1..(i - 1) : questions[j].id # id
  ELSE 0

\* a validator that asks for an answer to every question, optional ones too
validateAnswers_AnyQuestion(answers, questions) ==
  LET answeredQuestionIds == {answers[i].questionId : i \in 1..Len(answers)}
      missing == [i \in 1..Len(questions) |->
                    IF questions[i].id \notin answeredQuestionIds
                    THEN "Required question not answered: " \o questions[i].id
                    ELSE ""]
      each == [i \in 1..Len(answers) |->
                 LET qi == FindQuestion(questions, answers[i].questionId)
                 IN IF qi = 0
                    THEN "Answer provided for unknown question: " \o answers[i].questionId
                    ELSE validateAnswer(answers[i], questions[qi])]
      errors == SelectSeq(missing, NonEmptyText) \o SelectSeq(each, NonEmptyText)
  IN [valid |-> Len(errors) = 0, errors |-> errors]

\* a validator that stops at the first answer to an unknown question
validateAnswers_StopAtUnknown(answers, questions) ==
  LET answeredQuestionIds == {answers[i].questionId : i \in 1..Len(answers)}
      missing == [i \in 1..Len(questions) |->
                    IF questions[i].required /\ questions[i].id \notin answeredQuestionIds
                    THEN "Required question not answered: " \o questions[i].id
                    ELSE ""]
      each == [i \in 1..Len(answers) |->
                 LET qi == FindQuestion(questions, answers[i].questionId)
                 IN IF \E j \in 1..(i - 1) : FindQuestion(questions, answers[j].questionId) = 0
                    THEN ""
                    ELSE IF qi = 0
                    THEN "Answer provided for unknown question: " \o answers[i].questionId
                    ELSE validateAnswer(answers[i], questions[qi])]
      errors == SelectSeq(missing, NonEmptyText) \o SelectSeq(each, NonEmptyText)
  IN [valid |-> Len(errors) = 0, errors |-> errors]

\* a validator that returns at its first error
validateAnswers_FailFast(answers, questions) ==
  LET answeredQuestionIds == {answers[i].questionId : i \in 1..Len(answers)}
      missing == [i \in 1..Len(questions) |->
                    IF questions[i].required /\ questions[i].id \notin answeredQuestionIds
                    THEN "Required question not answered: " \o questions[i].id
                    ELSE ""]
      each == [i \in 1..Len(answers) |->
                 LET qi == FindQuestion(questions, answers[i].questionId)
                 IN IF qi = 0
                    THEN "Answer provided for unknown question: " \o answers[i].questionId
                    ELSE validateAnswer(answers[i], questions[qi])]
      errors == SelectSeq(missing, NonEmptyText) \o SelectSeq(each, NonEmptyText)
  IN [valid |-> Len(errors) = 0,
      errors |-> IF Len(errors) = 0 THEN errors ELSE <<errors[1]>>]

\* validateAnswers: {valid, errors}
validateAnswers(answers, questions) ==
  LET answeredQuestionIds == {answers[i].questionId : i \in 1..Len(answers)}
      missing == [i \in 1..Len(questions) |->
                    IF questions[i].required /\ questions[i].id \notin answeredQuestionIds
                    THEN "Required question not answered: " \o questions[i].id
                    ELSE ""]
      each == [i \in 1..Len(answers) |->
                 LET qi == FindQuestion(questions, answers[i].questionId)
                 IN IF qi = 0
                    THEN "Answer provided for unknown question: " \o answers[i].questionId
                    ELSE validateAnswer(answers[i], questions[qi])]
      errors == SelectSeq(missing, NonEmptyText) \o SelectSeq(each, NonEmptyText)
  IN [valid |-> Len(errors) = 0, errors |-> errors]

(* ----------------------- LLM output validation ------------------------ *)
LLMData(severity, min_days, isArray, questions) ==
  [severity |-> severity, min_days_before_next_assessment |-> min_days,
   questions |-> [isArray |-> isArray, items |-> questions]]

\* _validateLLMResponse: the message of the error it throws, "" when it accepts
validateLLMResponse(data) ==
  IF data.severity = "" \/ data.severity \notin {"low", "moderate", "high"}
  THEN "Invalid severity level in LLM response"
  ELSE IF data.min_days_before_next_assessment.k # "num"
          \/ data.min_days_before_next_assessment.n < 0
  THEN "Invalid min_days_before_next_assessment in LLM response"
  ELSE IF ~data.questions.isArray \/ Len(data.questions.items) = 0
  THEN "No questions generated in LLM response"
  ELSE IF \E i \in 1..Len(data.questions.items) :
            LET question == data.questions.items[i]
            IN question.id = "" \/ question.type = "" \/ question.label = ""
  THEN "Invalid question structure in LLM response: missing id, type, or label"
  ELSE ""

\* mongoose validation of a new Assessment built from accepted LLM data
AssessmentSchemaValid(data) ==
  /\ data.severity \in SEVERITY_LEVELS
  /\ data.min_days_before_next_assessment.k = "num"
  /\ data.min_days_before_next_assessment.n >= 0
  /\ Len(data.questions.items) > 0
  /\ \A i \in 1..Len(data.questions.items) :
       LET question == data.questions.items[i]
       IN /\ question.id # ""
          /\ question.type \in QUESTION_TYPES
          /\ question.label # ""
          /\ \A j \in 1..Len(question.options.items) :
               /\ question.options.items[j].id # ""
               /\ question.options.items[j].label # ""
               /\ question.options.items[j].value.k # "null"

\* mongoose validation of a new AssessmentResponse
ResponseSchemaValid(answers) ==
  /\ Len(answers) > 0
  /\ \A i \in 1..Len(answers) :
       /\ answers[i].questionId # ""
       /\ answers[i].questionType \in QUESTION_TYPES
       /\ answers[i].value.k # "null"

(* ------------------------------ inputs -------------------------------- *)
Reqs == {"r1", "r2"}

\* u3 holds a valid token but its account has been removed
Users == {"u1", "u2", "u3"}
ExistingUsers == {"u1", "u2"}

\* each health concern with its owner
HealthConcerns == [h1 |-> "u1", h2 |-> "u2", h3 |-> "u3", h4 |-> "u1"]
ConcernIds == DOMAIN HealthConcerns

\* (userId, healthConcernId) of the generation and can-generate requests
\* the HealthConcern collection: every concern of its owner, not deleted
InitialConcerns == [h \in ConcernIds |-> [user |-> HealthConcerns[h], isActive |-> TRUE]]

\* h0 is the id of no health concern
GeneratePairs ==
  {<<"u1", "h1">>, <<"u2", "h2">>, <<"u2", "h1">>, <<"u3", "h3">>, <<"u1", "h0">>}

StdQuestions ==
  << Question("q1", "numeric", "How strong is the pain?", TRUE, NoOptions, Whole(0), Whole(10)),
     Question("q2", "long_text", "Anything else?", FALSE, NoOptions, Null, Null) >>

\* parsed LLM outputs: three the pipeline accepts and stores, then one per defect
GoodData ==
  { LLMData("low", Num(0), TRUE, StdQuestions),
    LLMData("low", Num(1), TRUE, StdQuestions),
    LLMData("moderate", Whole(1), TRUE, StdQuestions) }

BadData ==
  { LLMData("severe", Whole(1), TRUE, StdQuestions),
    LLMData("", Whole(1), TRUE, StdQuestions),
    LLMData("low", Num(0 - 1), TRUE, StdQuestions),
    LLMData("low", Str("14"), TRUE, StdQuestions),
    LLMData("low", Whole(1), FALSE, <<>>),
    LLMData("low", Whole(1), TRUE, <<>>),
    LLMData("low", Whole(1), TRUE,
            << Question("q1", "numeric", "", TRUE, NoOptions, Whole(0), Whole(10)) >>) }

\* accepted by _validateLLMResponse, refused by the Assessment schema
SchemaBadData ==
  { LLMData("low", Whole(1), TRUE,
            << Question("q1", "boolean", "Yes or no?", TRUE, NoOptions, Null, Null) >>) }

\* accepted by _validateLLMResponse and by the Assessment schema: a choice
\* question without options, a numeric question without min and max
LooseData ==
  { LLMData("low", Whole(1), TRUE,
            << Question("q1", "single_choice", "Which side?", TRUE, NoOptions, Null, Null) >>),
    LLMData("low", Whole(1), TRUE,
            << Question("q1", "numeric", "How many hours?", TRUE, NoOptions, Null, Null) >>) }

NoData == LLMData("", Null, FALSE, <<>>)

\* message.content of a completion: its form and the data its JSON text denotes
Content(form, data) == [form |-> form, data |-> data]

Completions ==
  { [content |-> Content(f, d), refusal |-> ""] :
      f \in {"json", "fenced_json"},
      d \in GoodData \cup BadData \cup SchemaBadData \cup LooseData }
  \cup { [content |-> Content(f, NoData), refusal |-> ""] : f \in {"text", "blank", ""} }
  \cup { [content |-> Content("", NoData), refusal |-> "I cannot help with that"] }
  \cup { [content |-> Content("fenced", d), refusal |-> ""] : d \in GoodData }

\* errors client.chat.completions.create rejects with
ApiErrors ==
  { [status |-> 401, code |-> "invalid_api_key"],
    [status |-> 429, code |-> "rate_limit_exceeded"],
    [status |-> 503, code |-> ""],
    [status |-> 500, code |-> ""],
    [status |-> 502, code |-> ""],
    [status |-> 400, code |-> "context_length_exceeded"],
    [status |-> 0, code |-> "ECONNRESET"] }

NoApiError == [status |-> 0, code |-> ""]

\* what the endpoint may answer to one call
LLMResponses ==
  { [ok |-> TRUE, completion |-> c, error |-> NoApiError] : c \in Completions }
  \cup { [ok |-> FALSE, completion |-> [content |-> Content("", NoData), refusal |-> ""],
          error |-> e] : e \in ApiErrors }

\* the answers of the endpoint in the runs with concurrent requests: a stored
\* questionnaire with a fractional or a whole day count, or a fatal error
FewResponses ==
  {resp \in LLMResponses :
     \/ resp.ok /\ resp.completion.content.form = "json"
           /\ resp.completion.content.data \in GoodData
           /\ resp.completion.content.data.min_days_before_next_assessment.n > 0
     \/ ~resp.ok /\ resp.error.status = 401}

\* (userId, healthConcernId) of the requests in the runs with concurrent requests
OwnedPairs ==
  {p \in GeneratePairs :
     p[1] \in ExistingUsers /\ p[2] \in ConcernIds /\ HealthConcerns[p[2]] = p[1]}

ValidAnswers == << Answer("q1", "numeric", Whole(5)) >>
OtherValidAnswers == << Answer("q1", "numeric", Whole(7)), Answer("q2", "long_text", Str("worse at night")) >>
InvalidAnswers == << Answer("q1", "numeric", Whole(11)) >>

\* (answers, notes) of the submission requests
Submissions ==
  { [answers |-> ValidAnswers, notes |-> ""],
    [answers |-> OtherValidAnswers, notes |-> "second"],
    [answers |-> InvalidAnswers, notes |-> ""] }

AssessmentIds == 1..2

\* an assessment stored by an earlier generation, at time 0
Stored(userId, healthConcernId, minDays, isActive) ==
  [user |-> userId, healthConcern |-> healthConcernId, severity |-> "low",
   minDaysBeforeNextAssessment |-> minDays, questions |-> PersistQuestions(StdQuestions),
   isActive |-> isActive, createdAt |-> 0]

\* the Assessment collection when the run starts: empty; one assessment that
\* was deactivated; one active assessment; assessments of two users
InitialStores ==
  { <<>>,
    << Stored("u1", "h1", Scale, FALSE) >>,
    << Stored("u1", "h1", Scale, TRUE) >>,
    << Stored("u2", "h2", Scale, TRUE), Stored("u1", "h1", 0, TRUE) >> }

(* ------------------------------- state -------------------------------- *)
VARIABLES
  now,          \* Date.now(), in hours
  assessments,  \* the Assessment collection
  responses,    \* the AssessmentResponse collection
  req,          \* the request each slot is handling
  nreq,         \* requests started so far
  concerns,     \* the HealthConcern collection
  tiktoken      \* the tokenizer: whether an encoding loads, and the encodingCache

vars == <<now, assessments, responses, req, nreq, concerns, tiktoken>>

\* an error as generateCompletion's catch block sees it; a request keeps in
\* thrown what its latest call to the endpoint ended with
Thrown(status, code, message) == [status |-> status, code |-> code, message |-> message]
NoThrown == Thrown(0, "", "")

NoGate ==
  [allowed |-> FALSE, reason |-> "", daysSinceLastAssessment |-> 0 - 1,
   daysRemaining |-> 0, lastAssessmentDate |-> 0 - 1]

\* no context built yet
NoContext == [patient |-> "", healthConcern |-> "", previousAssessments |-> <<>>]

Idle ==
  [op |-> "none", pc |-> "idle", user |-> "", hc |-> "", aid |-> 0,
   answers |-> <<>>, notes |-> "", gate |-> NoGate, ctxBuilt |-> FALSE,
   attempt |-> 0, calls |-> 0, thrown |-> NoThrown, data |-> NoData, validated |-> FALSE,
   persisted |-> FALSE, existedAtStart |-> FALSE, ownedAtStart |-> FALSE,
   deletedAtStart |-> FALSE,
   errors |-> <<>>, rid |-> 0, found |-> 0, hasResponse |-> FALSE, listed |-> <<>>,
   page |-> 0, limit |-> 0, totalCount |-> 0, context |-> NoContext, raw |-> Null, cleaned |-> Null, ctxText |-> <<>>, maxTokens |-> 0, optimized |-> <<>>,
   err |-> NoError, status |-> 0]

(* ---------------------------- cooldown gate --------------------------- *)
ActiveFor(userId, healthConcernId) ==
  {i \in 1..Len(assessments) :
     /\ assessments[i].user = userId
     /\ assessments[i].healthConcern = healthConcernId
     /\ assessments[i].isActive}

\* findOne(...).sort({createdAt: -1}): the documents the query may return
\* (any of those with the greatest createdAt), {0} when none matches
findLatestByUserAndConcern(userId, healthConcernId) ==
  LET active == ActiveFor(userId, healthConcernId)
  IN IF active = {} THEN {0}
     ELSE {i \in active : \A j \in active : assessments[i].createdAt >= assessments[j].createdAt}

\* Math.floor((Date.now() - createdAt) / (1000 * 60 * 60 * 24))
daysSince(createdAt) == (now - createdAt) \div HoursPerDay

\* variant: the cooldown must be exceeded, not merely reached
canGenerateNewAssessment_Strict(latest) ==
  IF latest = 0
  THEN [NoGate EXCEPT !.allowed = TRUE, !.reason = "No previous assessment found"]
  ELSE LET latestAssessment == assessments[latest]
           daysSinceLastAssessment == daysSince(latestAssessment.createdAt)
           daysRemaining ==
             latestAssessment.minDaysBeforeNextAssessment - daysSinceLastAssessment * Scale
       IN IF daysSinceLastAssessment * Scale > latestAssessment.minDaysBeforeNextAssessment
          THEN [NoGate EXCEPT !.allowed = TRUE,
                              !.daysSinceLastAssessment = daysSinceLastAssessment]
          ELSE [NoGate EXCEPT
                  !.reason = "Must wait " \o NumText(daysRemaining)
                               \o " more day(s) before next assessment",
                  !.daysRemaining = daysRemaining,
                  !.lastAssessmentDate = latestAssessment.createdAt]

\* canGenerateNewAssessment, given the document the query returned
canGenerateNewAssessment(latest) ==
  IF latest = 0
  THEN [NoGate EXCEPT !.allowed = TRUE, !.reason = "No previous assessment found"]
  ELSE LET latestAssessment == assessments[latest]
           daysSinceLastAssessment == daysSince(latestAssessment.createdAt)
           daysRemaining ==
             latestAssessment.minDaysBeforeNextAssessment - daysSinceLastAssessment * Scale
       IN IF daysSinceLastAssessment * Scale >= latestAssessment.minDaysBeforeNextAssessment
          THEN [NoGate EXCEPT !.allowed = TRUE,
                              !.daysSinceLastAssessment = daysSinceLastAssessment]
          ELSE [NoGate EXCEPT
                  !.reason = "Must wait " \o NumText(daysRemaining)
                               \o " more day(s) before next assessment",
                  !.daysRemaining = daysRemaining,
                  !.lastAssessmentDate = latestAssessment.createdAt]

(* --------------------------- request plumbing ------------------------- *)
\* A slot takes a new request when it is free. The slots are interchangeable,
\* so r2 is used only for a request that arrives while r1 is busy.
CanStart(r) ==
  /\ req[r].pc \in {"idle", "done"}
  /\ nreq < MaxRequests
  /\ r = "r2" => req["r1"].pc \notin {"idle", "done"}

Begin(r, q) ==
  /\ CanStart(r)
  /\ nreq' = nreq + 1
  /\ req' = [req EXCEPT ![r] = q]

\* the request ends with the error thrown; the error handler answers
Failed(q, err) == [q EXCEPT !.pc = "done", !.err = err, !.status = errorHandler(err)]

Succeeded(q, status) == [q EXCEPT !.pc = "done", !.status = status]

(* ----------------------------- toonContext --------------------------- *)
\* An object is the list of its entries, in Object.entries order.
Entry(key, value) == [key |-> key, value |-> value]
Obj(entries) == [k |-> "obj", s |-> "", n |-> 0, a |-> entries]

fieldsToRemove ==
  {"password", "refreshToken", "accessToken", "__v", "llmMetadata", "reportPayload"}

Kept(entry) == entry.key \notin fieldsToRemove

\* Object.entries of an object, and of an array (its indices as keys)
Entries(obj) ==
  IF obj.k = "arr" THEN [i \in 1..Len(obj.a) |-> Entry(NatText(i - 1), obj.a[i])]
  ELSE obj.a

\* value._id && Object.keys(value).length === 1
OnlyId(value) ==
  /\ Len(value.a) = 1 /\ value.a[1].key = "_id"
  /\ value.a[1].value \notin {Null, Str(""), Num(0)}

\* cleanContext: what is no object comes back as it is; of an object or an
\* array a new object is built from its entries
RECURSIVE cleanContext(_)
cleanContext(obj) ==
  IF obj.k \notin {"obj", "arr"} THEN obj
  ELSE LET kept == SelectSeq(Entries(obj), Kept)
           clean(value) ==
             IF value.k = "arr"
             THEN Arr([i \in 1..Len(value.a) |-> cleanContext(value.a[i])])
             ELSE IF value.k = "obj"
             THEN IF OnlyId(value) THEN Str(String(value.a[1].value))
                  ELSE cleanContext(value)
             ELSE value
       IN Obj([i \in 1..Len(kept) |-> Entry(kept[i].key, clean(kept[i].value))])

\* a caller hands a context object to the cleaner
StartClean(r, contextData) ==
  /\ nreq = 0
  /\ Begin(r, [Idle EXCEPT !.op = "clean", !.pc = "clean", !.raw = contextData])
  /\ UNCHANGED <<concerns, tiktoken, now, assessments, responses>>

\* buildToonContext: the cleaned object is what the encoder is given
Clean(r) ==
  /\ req[r].pc = "clean"
  /\ req' = [req EXCEPT ![r].pc = "done", ![r].cleaned = cleanContext(req[r].raw)]
  /\ UNCHANGED <<concerns, tiktoken, now, assessments, responses, nreq>>

(* ----------------------------- tokenCounter -------------------------- *)
\* A text is a sequence of characters. The encoding joins the characters of a
\* text into tokens: the pair a,b is one token, every other character is a
\* token of its own.
RECURSIVE Encode(_)
Encode(text) ==
  IF Len(text) = 0 THEN <<>>
  ELSE IF Len(text) >= 2 /\ text[1] = "a" /\ text[2] = "b"
  THEN <<SubSeq(text, 1, 2)>> \o Encode(SubSeq(text, 3, Len(text)))
  ELSE <<SubSeq(text, 1, 1)>> \o Encode(Tail(text))

\* encoding.decode: the characters of the tokens, in order
RECURSIVE Decode(_)
Decode(tokens) == IF Len(tokens) = 0 THEN <<>> ELSE tokens[1] \o Decode(Tail(tokens))

\* Math.ceil(text.length / 4)
Estimate(text) == (Len(text) + CharsPerToken - 1) \div CharsPerToken

\* tokens.slice(0, n) and context.substring(0, n), n >= 0
Slice(seq, n) == SubSeq(seq, 1, IF n < Len(seq) THEN n ELSE Len(seq))

\* countTokens: the encoding's count, the estimate when no encoding loads
countTokens(text, loads) ==
  IF Len(text) = 0 THEN 0
  ELSE IF loads THEN Len(Encode(text)) ELSE Estimate(text)

TruncationMarker == "\n\n[Context truncated due to length...]"

\* an optimizeContext that truncates a text of exactly maxTokens tokens too
optimizeContext_Below(context, maxTokens, loads) ==
  IF Len(context) = 0 THEN [text |-> <<>>, tokenCount |-> 0, wasTruncated |-> FALSE]
  ELSE IF countTokens(context, loads) < maxTokens
  THEN [text |-> context, tokenCount |-> countTokens(context, loads), wasTruncated |-> FALSE]
  ELSE IF loads
  THEN [text |-> Decode(Slice(Encode(context), maxTokens)) \o <<TruncationMarker>>,
        tokenCount |-> maxTokens, wasTruncated |-> TRUE]
  ELSE [text |-> Slice(context, maxTokens * CharsPerToken) \o <<TruncationMarker>>,
        tokenCount |-> maxTokens, wasTruncated |-> TRUE]

\* optimizeContext: {text, tokenCount, wasTruncated}
optimizeContext(context, maxTokens, loads) ==
  IF Len(context) = 0 THEN [text |-> <<>>, tokenCount |-> 0, wasTruncated |-> FALSE]
  ELSE IF countTokens(context, loads) <= maxTokens
  THEN [text |-> context, tokenCount |-> countTokens(context, loads), wasTruncated |-> FALSE]
  ELSE IF loads
  THEN [text |-> Decode(Slice(Encode(context), maxTokens)) \o <<TruncationMarker>>,
        tokenCount |-> maxTokens, wasTruncated |-> TRUE]
  ELSE [text |-> Slice(context, maxTokens * CharsPerToken) \o <<TruncationMarker>>,
        tokenCount |-> maxTokens, wasTruncated |-> TRUE]

\* getEncoding: a loaded encoding stays in the cache
Cached == [tiktoken EXCEPT !.encodingCache = @ \/ tiktoken.loads]

\* a caller hands a text and a budget to the budgeter
StartOptimize(r, text, budget) ==
  /\ nreq = 0
  /\ Begin(r, [Idle EXCEPT !.op = "optimize", !.pc = "optimize",
                            !.ctxText = text, !.maxTokens = budget])
  /\ UNCHANGED <<concerns, tiktoken, now, assessments, responses>>

\* one call of optimizeContext on the text; a caller may repeat it
Optimize(r) ==
  /\ req[r].pc = "optimize"
  /\ Len(req[r].optimized) < MaxCalls
  /\ req' = [req EXCEPT ![r].optimized =
               Append(@, optimizeContext(req[r].ctxText, req[r].maxTokens,
                                         tiktoken.loads \/ tiktoken.encodingCache))]
  /\ tiktoken' = Cached
  /\ UNCHANGED <<concerns, now, assessments, responses, nreq>>

(* ------------------------- generateAssessment ------------------------- *)
\* a generation request arrives; deletedAtStart records whether its health
\* concern had been soft-deleted by then
StartGenerate(r, userId, healthConcernId) ==
  /\ Begin(r, [Idle EXCEPT !.op = "generate", !.pc = "cooldown",
                            !.user = userId, !.hc = healthConcernId,
                            !.deletedAtStart =
                               /\ healthConcernId \in ConcernIds
                               /\ ~concerns[healthConcernId].isActive])
  /\ UNCHANGED <<concerns, tiktoken, now, assessments, responses>>

\* variant: the denial is logged and the request goes on
AfterCooldown_FailOpen(q, cooldownCheck) ==
  [q EXCEPT !.gate = cooldownCheck, !.pc = "fetch_concern"]

\* if (!cooldownCheck.allowed) throw createConflictError(cooldownCheck.reason, ...)
AfterCooldown(q, cooldownCheck) ==
  IF ~cooldownCheck.allowed
  THEN Failed([q EXCEPT !.gate = cooldownCheck], createConflictError(cooldownCheck.reason))
  ELSE [q EXCEPT !.gate = cooldownCheck, !.pc = "fetch_concern"]

\* 1. cooldown enforcement
CooldownCheck(r) ==
  /\ req[r].pc = "cooldown"
  /\ \E latest \in findLatestByUserAndConcern(req[r].user, req[r].hc) :
       req' = [req EXCEPT ![r] = AfterCooldown(req[r], canGenerateNewAssessment(latest))]
  /\ UNCHANGED <<concerns, tiktoken, now, assessments, responses, nreq>>

\* a lookup by id alone, whoever the owner is
FindHealthConcern_AnyOwner(healthConcernId, userId) ==
  healthConcernId \in ConcernIds

\* HealthConcern.findOne({_id, user})
FindHealthConcern(healthConcernId, userId) ==
  healthConcernId \in ConcernIds /\ concerns[healthConcernId].user = userId

\* 2. health concern lookup
FetchHealthConcern(r) ==
  /\ req[r].pc = "fetch_concern"
  /\ req' = [req EXCEPT ![r] =
               IF ~FindHealthConcern(req[r].hc, req[r].user)
               THEN Failed(req[r], createNotFoundError("Health concern not found"))
               ELSE [req[r] EXCEPT !.pc = "fetch_user"]]
  /\ UNCHANGED <<concerns, tiktoken, now, assessments, responses, nreq>>

\* 3. user (and patient profile) lookup
FetchUser(r) ==
  /\ req[r].pc = "fetch_user"
  /\ req' = [req EXCEPT ![r] =
               IF req[r].user \notin ExistingUsers
               THEN Failed(req[r], createNotFoundError("User not found"))
               ELSE [req[r] EXCEPT !.pc = "fetch_previous"]]
  /\ UNCHANGED <<concerns, tiktoken, now, assessments, responses, nreq>>

ExistingResponse(assessmentId) ==
  \E i \in 1..Len(responses) : responses[i].assessment = assessmentId

\* the index lists sort({createdAt: -1}).limit(k) may return for a set of
\* documents: k of them, newest first, none older than one left out
NewestFirst(ids, k) ==
  {s \in [1..k -> ids] :
     /\ \A i, j \in 1..k : i < j => /\ s[i] # s[j]
                                   /\ assessments[s[i]].createdAt >= assessments[s[j]].createdAt
     /\ \A e \in ids \ {s[i] : i \in 1..k} :
          \A i \in 1..k : assessments[e].createdAt <= assessments[s[i]].createdAt}

\* a query for the previous assessments that has no limit
PreviousAssessments_NoLimit(userId, healthConcernId) ==
  LET active == ActiveFor(userId, healthConcernId)
  IN NewestFirst(active, Cardinality(active))

\* Assessment.find({user, healthConcern, isActive: true})
\*   .sort({createdAt: -1}).limit(3)
PreviousAssessments(userId, healthConcernId) ==
  LET active == ActiveFor(userId, healthConcernId)
  IN NewestFirst(active, IF Cardinality(active) < previousLimit
                         THEN Cardinality(active) ELSE previousLimit)

\* buildAssessmentContext: the patient and the health concern stand for their
\* profile fields; each previous assessment gives createdAt, severity, the
\* number of its questions and hasResponse, as the loop before the call set it
buildAssessmentContext(userId, healthConcernId, previous) ==
  [patient |-> userId,
   healthConcern |-> healthConcernId,
   previousAssessments |->
     [i \in 1..Len(previous) |->
        [createdAt |-> assessments[previous[i]].createdAt,
         severity |-> assessments[previous[i]].severity,
         questionCount |-> Len(assessments[previous[i]].questions),
         hasResponse |-> ExistingResponse(previous[i])]]]

\* 4.-7. previous assessments, context, budget, prompt; then the gateway is entered
FetchPrevious(r) ==
  /\ req[r].pc = "fetch_previous"
  /\ \E previous \in PreviousAssessments(req[r].user, req[r].hc) :
       req' = [req EXCEPT ![r].pc = "llm_call", ![r].ctxBuilt = TRUE,
                          ![r].context =
                            buildAssessmentContext(req[r].user, req[r].hc, previous)]
  /\ tiktoken' = Cached
  /\ UNCHANGED <<concerns, now, assessments, responses, nreq>>

(* ---------------------- gateway: generateCompletion ------------------- *)
\* one iteration of the retry loop up to the awaited create() call
LLMIssue(r) ==
  /\ req[r].pc = "llm_call"
  /\ req' = [req EXCEPT ![r] =
               IF req[r].attempt < maxRetries
               THEN [req[r] EXCEPT !.pc = "llm_wait", !.calls = req[r].calls + 1,
                                   !.thrown = NoThrown]
               ELSE Failed(req[r], PlainError("LLM API failed after all attempts"))]
  /\ UNCHANGED <<concerns, tiktoken, now, assessments, responses, nreq>>

\* the text of a content: empty, white space, or something else
ContentText(content) == IF content.form = "blank" THEN "  " ELSE content.form

\* what the try block throws for an answer of the endpoint, NoThrown when it returns
TryBlock(resp) ==
  IF ~resp.ok THEN Thrown(resp.error.status, resp.error.code, "api error")
  ELSE IF resp.completion.refusal # ""
  THEN Thrown(0, "", "OpenAI refused: " \o resp.completion.refusal)
  ELSE IF ContentText(resp.completion.content) = ""
          \/ Trim(ContentText(resp.completion.content)) = ""
  THEN Thrown(0, "", "OpenAI returned empty content")
  ELSE NoThrown

\* variant: the retry test allows one attempt too many
CatchBlock_OneMore(error, attempt) ==
  IF error.status = 401
  THEN [retry |-> FALSE, message |-> "Invalid OpenAI API key"]
  ELSE IF error.status \in {429, 503, 500, 502}
  THEN IF attempt < maxRetries
       THEN [retry |-> TRUE, message |-> ""]
       ELSE [retry |-> FALSE, message |-> "OpenAI API error. Please try again later."]
  ELSE IF error.code = "context_length_exceeded"
  THEN [retry |-> FALSE, message |-> "Context length exceeded. Please reduce the input size."]
  ELSE [retry |-> FALSE, message |-> "LLM API error: " \o error.message]

\* the catch block: retry (after a backoff), or the message of the error thrown
CatchBlock(error, attempt) ==
  IF error.status = 401
  THEN [retry |-> FALSE, message |-> "Invalid OpenAI API key"]
  ELSE IF error.status = 429 \/ error.status = 503
  THEN IF attempt < maxRetries - 1
       THEN [retry |-> TRUE, message |-> ""]
       ELSE [retry |-> FALSE, message |-> "OpenAI API rate limit exceeded. Please try again later."]
  ELSE IF error.status = 500 \/ error.status = 502
  THEN IF attempt < maxRetries - 1
       THEN [retry |-> TRUE, message |-> ""]
       ELSE [retry |-> FALSE, message |-> "OpenAI API server error. Please try again later."]
  ELSE IF error.code = "context_length_exceeded"
  THEN [retry |-> FALSE, message |-> "Context length exceeded. Please reduce the input size."]
  ELSE [retry |-> FALSE, message |-> "LLM API error: " \o error.message]

\* generateStructuredOutput: strip a code fence, then JSON.parse
StripFence(content) ==
  IF content.form \in {"fenced_json", "fenced"} THEN Content("json", content.data) ELSE content

JSONParse(content) ==
  IF content.form = "json" THEN [ok |-> TRUE, data |-> content.data]
  ELSE [ok |-> FALSE, data |-> NoData]

\* variant: the parsed output goes to the save without the structural validation
AfterResponse_NoValidate(q, resp) ==
  LET error == TryBlock(resp)
      decision == CatchBlock(error, q.attempt)
      parsed == JSONParse(StripFence(resp.completion.content))
      q1 == [q EXCEPT !.thrown = error]
  IN IF error # NoThrown
     THEN IF decision.retry THEN [q1 EXCEPT !.pc = "llm_backoff"]
          ELSE Failed(q1, PlainError(decision.message))
     ELSE IF ~parsed.ok
     THEN Failed(q1, PlainError("Failed to parse LLM response as JSON"))
     ELSE [q1 EXCEPT !.pc = "save", !.data = parsed.data, !.validated = TRUE]

\* the request after the endpoint answered resp: the rest of the loop iteration,
\* then parsing and structural validation up to the awaited save
AfterResponse(q, resp) ==
  LET error == TryBlock(resp)
      decision == CatchBlock(error, q.attempt)
      parsed == JSONParse(StripFence(resp.completion.content))
      q1 == [q EXCEPT !.thrown = error]
  IN IF error # NoThrown
     THEN IF decision.retry THEN [q1 EXCEPT !.pc = "llm_backoff"]
          ELSE Failed(q1, PlainError(decision.message))
     ELSE IF ~parsed.ok
     THEN Failed(q1, PlainError("Failed to parse LLM response as JSON"))
     ELSE IF validateLLMResponse(parsed.data) # ""
     THEN Failed([q1 EXCEPT !.data = parsed.data],
                 PlainError(validateLLMResponse(parsed.data)))
     ELSE [q1 EXCEPT !.pc = "save", !.data = parsed.data, !.validated = TRUE]

\* the endpoint answers the pending call
LLMRespond(r, resp) ==
  /\ req[r].pc = "llm_wait"
  /\ req' = [req EXCEPT ![r] = AfterResponse(req[r], resp)]
  /\ UNCHANGED <<concerns, tiktoken, now, assessments, responses, nreq>>

\* the backoff timer fires: continue with the next attempt
BackoffElapsed(r) ==
  /\ req[r].pc = "llm_backoff"
  /\ req' = [req EXCEPT ![r].pc = "llm_call", ![r].attempt = req[r].attempt + 1]
  /\ UNCHANGED <<concerns, tiktoken, now, assessments, responses, nreq>>

\* 9. new Assessment({...})
NewAssessment(q) ==
  [user |-> q.user, healthConcern |-> q.hc, severity |-> q.data.severity,
   minDaysBeforeNextAssessment |-> q.data.min_days_before_next_assessment.n,
   questions |-> PersistQuestions(q.data.questions.items),
   isActive |-> TRUE, createdAt |-> now]

\* variant: a unique index on the active (user, healthConcern) pair
InsertAssessment_UniquePair(store, doc) ==
  IF \E i \in 1..Len(store) :
       store[i].user = doc.user /\ store[i].healthConcern = doc.healthConcern /\ store[i].isActive
  THEN [error |-> DuplicateKeyError("user"), store |-> store]
  ELSE [error |-> NoError, store |-> Append(store, doc)]

\* variant: the save replaces the stored assessment of the same pair
InsertAssessment_Replace(store, doc) ==
  IF \E i \in 1..Len(store) :
       store[i].user = doc.user /\ store[i].healthConcern = doc.healthConcern
  THEN [error |-> NoError,
        store |-> [i \in 1..Len(store) |->
                     IF store[i].user = doc.user /\ store[i].healthConcern = doc.healthConcern
                     THEN doc ELSE store[i]]]
  ELSE [error |-> NoError, store |-> Append(store, doc)]

\* the insert: the indexes of the Assessment collection are not unique
InsertAssessment(store, doc) == [error |-> NoError, store |-> Append(store, doc)]

\* assessment.save(): schema validation, then the insert
SaveAssessment(r) ==
  /\ req[r].pc = "save"
  /\ IF ~AssessmentSchemaValid(req[r].data)
     THEN /\ assessments' = assessments
          /\ req' = [req EXCEPT ![r] =
                       Failed(req[r], ValidationError("Assessment validation failed"))]
     ELSE LET result == InsertAssessment(assessments, NewAssessment(req[r]))
          IN /\ assessments' = result.store
             /\ req' = [req EXCEPT ![r] =
                          IF result.error # NoError THEN Failed(req[r], result.error)
                          ELSE Succeeded([req[r] EXCEPT !.persisted = TRUE],
                                         HTTP_CODES.CREATED)]
  /\ UNCHANGED <<concerns, tiktoken, now, responses, nreq>>

(* --------------------------- checkCanGenerate ------------------------- *)
StartCanGenerate(r, userId, healthConcernId) ==
  /\ Begin(r, [Idle EXCEPT !.op = "can_generate", !.pc = "can_generate",
                            !.user = userId, !.hc = healthConcernId])
  /\ UNCHANGED <<concerns, tiktoken, now, assessments, responses>>

CheckCanGenerate(r) ==
  /\ req[r].pc = "can_generate"
  /\ \E latest \in findLatestByUserAndConcern(req[r].user, req[r].hc) :
       req' = [req EXCEPT ![r] =
                 Succeeded([req[r] EXCEPT !.gate = canGenerateNewAssessment(latest)],
                           HTTP_CODES.OK)]
  /\ UNCHANGED <<concerns, tiktoken, now, assessments, responses, nreq>>

(* ---------------------- submitAssessmentResponse ---------------------- *)
\* AssessmentResponse.findOne({assessment})
\* Assessment.findOne({_id, user, isActive: true})
\* a lookup that also returns deactivated assessments
FindAssessment_AnyState(assessmentId, userId) ==
  /\ assessmentId \in 1..Len(assessments)
  /\ assessments[assessmentId].user = userId

\* a lookup by id alone, whoever the owner is
FindAssessment_AnyOwner(assessmentId, userId) ==
  /\ assessmentId \in 1..Len(assessments)
  /\ assessments[assessmentId].isActive

FindAssessment(assessmentId, userId) ==
  /\ assessmentId \in 1..Len(assessments)
  /\ assessments[assessmentId].user = userId
  /\ assessments[assessmentId].isActive

\* a submission arrives; existedAtStart and ownedAtStart record what the stores
\* held for it at that moment
StartSubmit(r, userId, assessmentId, sub) ==
  /\ Begin(r, [Idle EXCEPT !.op = "submit", !.pc = "fetch_assessment", !.user = userId,
                            !.aid = assessmentId, !.answers = sub.answers,
                            !.notes = sub.notes,
                            !.existedAtStart = ExistingResponse(assessmentId),
                            !.ownedAtStart = FindAssessment(assessmentId, userId)])
  /\ UNCHANGED <<concerns, tiktoken, now, assessments, responses>>

\* 1. fetch the assessment
FetchAssessment(r) ==
  /\ req[r].pc = "fetch_assessment"
  /\ req' = [req EXCEPT ![r] =
               IF ~FindAssessment(req[r].aid, req[r].user)
               THEN Failed(req[r], createNotFoundError("Assessment not found"))
               ELSE [req[r] EXCEPT !.pc = "check_existing"]]
  /\ UNCHANGED <<concerns, tiktoken, now, assessments, responses, nreq>>

\* validation.errors.join(', ')
RECURSIVE Join(_)
Join(texts) ==
  IF Len(texts) = 0 THEN ""
  ELSE IF Len(texts) = 1 THEN texts[1]
  ELSE texts[1] \o ", " \o Join(Tail(texts))

\* variant: the answers go to the save without being validated
CheckExisting_NoValidation(r) ==
  /\ req[r].pc = "check_existing"
  /\ req' = [req EXCEPT ![r] =
               IF ExistingResponse(req[r].aid)
               THEN Failed(req[r], createConflictError("Assessment has already been completed"))
               ELSE [req[r] EXCEPT !.pc = "save_response"]]
  /\ UNCHANGED <<concerns, tiktoken, now, assessments, responses, nreq>>

\* 2. existing-response check, 3. answer validation; errors keeps validation.errors
CheckExisting(r) ==
  /\ req[r].pc = "check_existing"
  /\ LET validation == validateAnswers(req[r].answers, assessments[req[r].aid].questions)
         checked == [req[r] EXCEPT !.errors = validation.errors]
     IN req' = [req EXCEPT ![r] =
                  IF ExistingResponse(req[r].aid)
                  THEN Failed(req[r], createConflictError("Assessment has already been completed"))
                  ELSE IF ~validation.valid
                  THEN Failed(checked,
                              createBadRequestError("Answer validation failed: "
                                                      \o Join(validation.errors)))
                  ELSE [checked EXCEPT !.pc = "save_response", !.validated = TRUE]]
  /\ UNCHANGED <<concerns, tiktoken, now, assessments, responses, nreq>>

\* 4. new AssessmentResponse({...})
NewResponse(q) ==
  [assessment |-> q.aid, user |-> q.user,
   healthConcern |-> assessments[q.aid].healthConcern,
   answers |-> q.answers, notes |-> q.notes, reportStatus |-> "pending",
   submittedAt |-> now]

\* variant: the index on {assessment: 1} is not unique
InsertResponse_NoIndex(store, doc) == [error |-> NoError, store |-> Append(store, doc)]

\* variant: the save is an upsert keyed by the assessment
InsertResponse_Upsert(store, doc) ==
  IF \E i \in 1..Len(store) : store[i].assessment = doc.assessment
  THEN [error |-> NoError,
        store |-> [i \in 1..Len(store) |->
                     IF store[i].assessment = doc.assessment THEN doc ELSE store[i]]]
  ELSE [error |-> NoError, store |-> Append(store, doc)]

\* the insert under the unique index on {assessment: 1}
InsertResponse(store, doc) ==
  IF \E i \in 1..Len(store) : store[i].assessment = doc.assessment
  THEN [error |-> DuplicateKeyError("assessment"), store |-> store]
  ELSE [error |-> NoError, store |-> Append(store, doc)]

\* assessmentResponse.save(), then the report trigger (a log line) and the return
\* _triggerReportGeneration is called, not awaited or guarded, inside the try
\* of submitAssessmentResponse: it returns after logging, or it throws
TriggerOutcomes == {"logged", "throws"}

\* 4. save the response, 5. call the report trigger; what the trigger throws
\* is rethrown by the catch of submitAssessmentResponse
SaveResponseThen(r, outcome) ==
  /\ req[r].pc = "save_response"
  /\ IF ~ResponseSchemaValid(req[r].answers)
     THEN /\ responses' = responses
          /\ req' = [req EXCEPT ![r] =
                       Failed(req[r], ValidationError("Response must have at least one answer"))]
     ELSE LET result == InsertResponse(responses, NewResponse(req[r]))
          IN /\ responses' = result.store
             /\ req' = [req EXCEPT ![r] =
                          IF result.error # NoError THEN Failed(req[r], result.error)
                          ELSE IF outcome = "throws"
                          THEN Failed([req[r] EXCEPT !.persisted = TRUE],
                                      PlainError("report generation trigger failed"))
                          ELSE Succeeded([req[r] EXCEPT !.persisted = TRUE],
                                         HTTP_CODES.CREATED)]
  /\ UNCHANGED <<concerns, tiktoken, now, assessments, nreq>>

\* the placeholder trigger of the repository only logs
SaveResponse(r) == SaveResponseThen(r, "logged")

(* ------------------------- deleteHealthConcern ------------------------ *)
StartDeleteHealthConcern(r, userId, concernId) ==
  /\ Begin(r, [Idle EXCEPT !.op = "delete_concern", !.pc = "find_concern",
                            !.user = userId, !.hc = concernId])
  /\ UNCHANGED <<concerns, tiktoken, now, assessments, responses>>

\* HealthConcern.findById, the isActive check and the ownership check
FindConcernToDelete(r) ==
  /\ req[r].pc = "find_concern"
  /\ req' = [req EXCEPT ![r] =
               IF req[r].hc \notin ConcernIds \/ ~concerns[req[r].hc].isActive
               THEN Failed(req[r], createNotFoundError("Health concern not found"))
               ELSE IF concerns[req[r].hc].user # req[r].user
               THEN Failed(req[r], createForbiddenError(
                      "You do not have permission to delete this health concern"))
               ELSE [req[r] EXCEPT !.pc = "soft_delete"]]
  /\ UNCHANGED <<concerns, tiktoken, now, assessments, responses, nreq>>

\* healthConcern.softDelete(): isActive = false, then save
softDelete(r) ==
  /\ req[r].pc = "soft_delete"
  /\ concerns' = [concerns EXCEPT ![req[r].hc].isActive = FALSE]
  /\ req' = [req EXCEPT ![r] = Succeeded(req[r], HTTP_CODES.OK)]
  /\ UNCHANGED <<tiktoken, now, assessments, responses, nreq>>

(* -------------------------------- reads ------------------------------- *)
\* a lookup by id alone, whoever the owner is
FindOwnAssessment_AnyOwner(assessmentId, userId) ==
  assessmentId \in 1..Len(assessments)

\* Assessment.findOne({_id, user})
FindOwnAssessment(assessmentId, userId) ==
  /\ assessmentId \in 1..Len(assessments)
  /\ assessments[assessmentId].user = userId

\* AssessmentResponse.findOne({_id, user})
FindOwnResponse(responseId, userId) ==
  /\ responseId \in 1..Len(responses)
  /\ responses[responseId].user = userId

\* getAssessmentById arrives; existedAtStart and ownedAtStart record what the
\* store held for it at that moment
StartGetAssessment(r, userId, assessmentId) ==
  /\ Begin(r, [Idle EXCEPT !.op = "get_assessment", !.pc = "get_assessment",
                            !.user = userId, !.aid = assessmentId,
                            !.existedAtStart = assessmentId \in 1..Len(assessments),
                            !.ownedAtStart =
                               /\ assessmentId \in 1..Len(assessments)
                               /\ assessments[assessmentId].user = userId])
  /\ UNCHANGED <<concerns, tiktoken, now, assessments, responses>>

\* the lookup of getAssessmentById
GetAssessment(r) ==
  /\ req[r].pc = "get_assessment"
  /\ req' = [req EXCEPT ![r] =
               IF ~FindOwnAssessment(req[r].aid, req[r].user)
               THEN Failed(req[r], createNotFoundError("Assessment not found"))
               ELSE [req[r] EXCEPT !.pc = "attach_response", !.found = req[r].aid]]
  /\ UNCHANGED <<concerns, tiktoken, now, assessments, responses, nreq>>

\* hasResponse and response are attached to the assessment returned
AttachResponse(r) ==
  /\ req[r].pc = "attach_response"
  /\ req' = [req EXCEPT ![r] =
               Succeeded([req[r] EXCEPT !.hasResponse = ExistingResponse(req[r].aid)],
                         HTTP_CODES.OK)]
  /\ UNCHANGED <<concerns, tiktoken, now, assessments, responses, nreq>>

StartGetResponse(r, userId, responseId) ==
  /\ Begin(r, [Idle EXCEPT !.op = "get_response", !.pc = "get_response",
                            !.user = userId, !.rid = responseId,
                            !.existedAtStart = responseId \in 1..Len(responses),
                            !.ownedAtStart =
                               /\ responseId \in 1..Len(responses)
                               /\ responses[responseId].user = userId])
  /\ UNCHANGED <<concerns, tiktoken, now, assessments, responses>>

\* getResponseById
GetResponse(r) ==
  /\ req[r].pc = "get_response"
  /\ req' = [req EXCEPT ![r] =
               IF ~FindOwnResponse(req[r].rid, req[r].user)
               THEN Failed(req[r], createNotFoundError("Assessment response not found"))
               ELSE Succeeded([req[r] EXCEPT !.found = req[r].rid], HTTP_CODES.OK)]
  /\ UNCHANGED <<concerns, tiktoken, now, assessments, responses, nreq>>

\* query = {user, isActive: true} and, when a health concern is given, healthConcern
HistoryQuery(userId, healthConcernId) ==
  {i \in 1..Len(assessments) :
     /\ assessments[i].user = userId
     /\ assessments[i].isActive
     /\ healthConcernId # "" => assessments[i].healthConcern = healthConcernId}

\* .sort({createdAt: -1}).skip(skip).limit(limit) of a sorted list
PageOf(sorted, skip, limit) ==
  SubSeq(sorted, skip + 1, IF skip + limit < Len(sorted) THEN skip + limit ELSE Len(sorted))

\* getAssessmentHistory arrives; hc = "" when no health concern is given
StartHistory(r, userId, healthConcernId, page, limit) ==
  /\ Begin(r, [Idle EXCEPT !.op = "history", !.pc = "history", !.user = userId,
                            !.hc = healthConcernId, !.page = page, !.limit = limit])
  /\ UNCHANGED <<concerns, tiktoken, now, assessments, responses>>

\* getAssessmentHistory: the page, the total count, the response flags
History(r) ==
  /\ req[r].pc = "history"
  /\ LET query == HistoryQuery(req[r].user, req[r].hc)
         skip == (req[r].page - 1) * req[r].limit
     IN \E sorted \in NewestFirst(query, Cardinality(query)) :
          req' = [req EXCEPT ![r] =
                    Succeeded([req[r] EXCEPT
                                 !.listed =
                                    LET page == PageOf(sorted, skip, req[r].limit)
                                    IN [i \in 1..Len(page) |->
                                          [id |-> page[i],
                                           hasResponse |-> ExistingResponse(page[i])]],
                                 !.totalCount = Cardinality(query)],
                              HTTP_CODES.OK)]
  /\ UNCHANGED <<concerns, tiktoken, now, assessments, responses, nreq>>

(* -------------------------------- clock ------------------------------- *)
TickSteps == {HoursPerDay \div 2}

Tick(d) ==
  /\ now + d <= MaxTime
  /\ now' = now + d
  /\ UNCHANGED <<concerns, tiktoken, assessments, responses, req, nreq>>

(* ---------------------------- specification --------------------------- *)
Init ==
  /\ now = 0
  /\ assessments \in InitialStores
  /\ responses = <<>>
  /\ req = [r \in Reqs |-> Idle]
  /\ nreq = 0
  /\ concerns = InitialConcerns
  /\ tiktoken = [loads |-> TRUE, encodingCache |-> FALSE]

Next ==
  \/ \E r \in Reqs, p \in OwnedPairs : StartGenerate(r, p[1], p[2])
  \/ \E r \in Reqs : CooldownCheck(r)
  \/ \E r \in Reqs : FetchHealthConcern(r)
  \/ \E r \in Reqs : FetchUser(r)
  \/ \E r \in Reqs : FetchPrevious(r)
  \/ \E r \in Reqs : LLMIssue(r)
  \/ \E r \in Reqs, resp \in FewResponses : LLMRespond(r, resp)
  \/ \E r \in Reqs : SaveAssessment(r)
  \/ \E r \in Reqs, p \in OwnedPairs : StartCanGenerate(r, p[1], p[2])
  \/ \E r \in Reqs : CheckCanGenerate(r)
  \/ \E r \in Reqs, u \in ExistingUsers, a \in AssessmentIds, sub \in Submissions :
       StartSubmit(r, u, a, sub)
  \/ \E r \in Reqs : FetchAssessment(r)
  \/ \E r \in Reqs : CheckExisting(r)
  \/ \E r \in Reqs : SaveResponse(r)
  \/ \E d \in TickSteps : Tick(d)

(* Requests of all three kinds, two at a time, with the answers of the      *)
(* endpoint that need no retry (the retry loop is exercised by SpecGateway). *)
Spec == Init /\ [][Next]_vars

(* One generation request at a time, against every answer of the endpoint.  *)
(* Every step of the program is taken once it can be (the event loop runs    *)
(* ready callbacks, the store answers, timers fire); nothing makes the        *)
(* endpoint answer.                                                          *)
GatewayNext ==
  \/ \E p \in GeneratePairs : StartGenerate("r1", p[1], p[2])
  \/ CooldownCheck("r1")
  \/ FetchHealthConcern("r1")
  \/ FetchUser("r1")
  \/ FetchPrevious("r1")
  \/ LLMIssue("r1")
  \/ \E resp \in LLMResponses : LLMRespond("r1", resp)
  \/ BackoffElapsed("r1")
  \/ SaveAssessment("r1")

GatewayFairness ==
  /\ WF_vars(CooldownCheck("r1"))
  /\ WF_vars(FetchHealthConcern("r1"))
  /\ WF_vars(FetchUser("r1"))
  /\ WF_vars(FetchPrevious("r1"))
  /\ WF_vars(LLMIssue("r1"))
  /\ WF_vars(BackoffElapsed("r1"))
  /\ WF_vars(SaveAssessment("r1"))

SpecGateway == Init /\ [][GatewayNext]_vars /\ GatewayFairness

(* ------------------------ validator specification -------------------- *)
\* options of the choice and rating questions: a text value and a numeric one
YesOrTwo == Options(<< Option("a", Str("yes")), Option("b", Whole(2)) >>)

ChoiceQuestions ==
  << Question("q3", "single_choice", "Does it hurt?", TRUE, YesOrTwo, Null, Null),
     Question("q4", "multi_choice", "Which apply?", TRUE, YesOrTwo, Null, Null) >>

RatingQuestions ==
  << Question("q5", "rating_likert", "Do you agree?", FALSE, YesOrTwo, Null, Null),
     Question("q6", "rating_frequency", "How often?", TRUE, YesOrTwo, Null, Null) >>

RangeQuestions ==
  << Question("q7", "rating_numeric", "Rate the pain", TRUE, NoOptions, Whole(1), Whole(5)),
     Question("q8", "rating_slider", "Slide", FALSE, NoOptions, Whole(0), Whole(3)) >>

\* a choice and a rating question generated without options
OpenQuestions ==
  << Question("q3", "single_choice", "Which side?", TRUE, NoOptions, Null, Null),
     Question("q5", "rating_likert", "Do you agree?", FALSE, NoOptions, Null, Null) >>

\* the questionnaires the validator is run against
ValidatorQuestionSets ==
  {StdQuestions, ChoiceQuestions, RatingQuestions, RangeQuestions, OpenQuestions}

\* the answers a submission is made of: per question type values inside,
\* on and outside the bounds or options, values of the wrong kind, an answer
\* of another type than its question and an answer to no question
AnswerPool ==
  { Answer("q1", "numeric", v) :
      v \in {Whole(0), Whole(5), Whole(10), Num(0 - 1), Whole(11), Str("5")} }
  \cup { Answer("q1", "rating_slider", Whole(99)), Answer("zz", "numeric", Whole(99)) }
  \cup { Answer("q2", "long_text", v) : v \in {Str("fine"), Str(" "), Whole(1)} }
  \cup { Answer("q3", "single_choice", v) :
           v \in {Str("yes"), Str("2"), Whole(2), Str("no"), Arr(<<Str("yes")>>)} }
  \cup { Answer("q3", "long_text", Whole(2)) }
  \cup { Answer("q4", "multi_choice", v) :
           v \in {Arr(<<Str("yes")>>), Arr(<<Whole(2)>>), Arr(<<Str("2"), Str("no")>>),
                  Arr(<<>>), Str("yes")} }
  \cup { Answer(q[1], q[2], v) :
           q \in {<<"q5", "rating_likert">>, <<"q6", "rating_frequency">>},
           v \in {Str("yes"), Str("2"), Whole(2), Str("never")} }
  \cup { Answer("q7", "rating_numeric", v) :
           v \in {Whole(1), Whole(5), Whole(0), Whole(6), Str("3")} }
  \cup { Answer("q8", "rating_slider", v) :
           v \in {Whole(0), Whole(3), Num(0 - 1), Whole(4), Whole(2)} }

\* submissions of no, one or two answers
AnswerLists ==
  {<<>>} \cup {<<a>> : a \in AnswerPool} \cup {<<a, b>> : a, b \in AnswerPool}

\* an active assessment of u1 with the given questionnaire
StoredWith(qs) ==
  [Stored("u1", "h1", Scale, TRUE) EXCEPT !.questions = PersistQuestions(qs)]

InitValidator ==
  /\ now = 0
  /\ assessments \in {<<StoredWith(qs)>> : qs \in ValidatorQuestionSets}
  /\ responses = <<>>
  /\ req = [r \in Reqs |-> Idle]
  /\ nreq = 0
  /\ concerns = InitialConcerns
  /\ tiktoken = [loads |-> TRUE, encodingCache |-> FALSE]

\* one submission by the owner, with any of the answer lists
ValidatorNext ==
  \/ \E answers \in AnswerLists :
       nreq = 0 /\ StartSubmit("r1", "u1", 1, [answers |-> answers, notes |-> ""])
  \/ FetchAssessment("r1")
  \/ CheckExisting("r1")
  \/ SaveResponse("r1")

SpecValidator == InitValidator /\ [][ValidatorNext]_vars

(* ------------------------- trigger specification --------------------- *)
\* submissions whose report trigger may fail
TriggerNext ==
  \/ \E r \in Reqs, u \in ExistingUsers, a \in AssessmentIds, sub \in Submissions :
       StartSubmit(r, u, a, sub)
  \/ \E r \in Reqs : FetchAssessment(r)
  \/ \E r \in Reqs : CheckExisting(r)
  \/ \E r \in Reqs, outcome \in TriggerOutcomes : SaveResponseThen(r, outcome)

SpecTrigger == Init /\ [][TriggerNext]_vars

(* ------------------------- budgeter specification --------------------- *)
Alphabet == {"a", "b", "c"}

\* every text of at most MaxTextLen characters
Texts == UNION {[1..n -> Alphabet] : n \in 0..MaxTextLen}

Budgets == 0..MaxBudget

\* the tokenizer's encoding loads, or does not and the estimate is used
InitBudget ==
  /\ now = 0
  /\ assessments = <<>>
  /\ responses = <<>>
  /\ req = [r \in Reqs |-> Idle]
  /\ nreq = 0
  /\ concerns = InitialConcerns
  /\ tiktoken \in {[loads |-> l, encodingCache |-> FALSE] : l \in BOOLEAN}

BudgetNext ==
  \/ \E text \in Texts, budget \in Budgets : StartOptimize("r1", text, budget)
  \/ Optimize("r1")

SpecBudget == InitBudget /\ [][BudgetNext]_vars

(* ------------------------- context specification ---------------------- *)
\* what an earlier assessment can be to a generation request of u1 for h1: of
\* the same pair and active, of the same pair and deactivated, of another
\* concern of u1, of another user
StoredKinds ==
  { <<"u1", "h1", TRUE>>, <<"u1", "h1", FALSE>>, <<"u1", "h4", TRUE>>, <<"u2", "h2", TRUE>> }

\* the Assessment collection of the given kinds; two assessments are created
\* per hour, severities alternate, no cooldown
ContextStore(kinds) ==
  [i \in 1..Len(kinds) |->
     [Stored(kinds[i][1], kinds[i][2], 0, kinds[i][3])
        EXCEPT !.createdAt = (i + 1) \div 2,
               !.severity = IF i % 2 = 0 THEN "high" ELSE "low"]]

RECURSIVE Ascending(_)
Ascending(ids) ==
  IF ids = {} THEN <<>>
  ELSE LET least == CHOOSE i \in ids : \A j \in ids : i <= j
       IN <<least>> \o Ascending(ids \ {least})

\* the AssessmentResponse collection: one response of the owner to each of
\* the answered assessments
ResponsesTo(store, answered) ==
  [j \in 1..Cardinality(answered) |->
     [assessment |-> Ascending(answered)[j],
      user |-> store[Ascending(answered)[j]].user,
      healthConcern |-> store[Ascending(answered)[j]].healthConcern,
      answers |-> ValidAnswers, notes |-> "", reportStatus |-> "pending",
      submittedAt |-> (MaxStored + 1) \div 2]]

InitContext ==
  /\ now = (MaxStored + 1) \div 2
  /\ \E n \in 0..MaxStored : \E kinds \in [1..n -> StoredKinds] :
       \E answered \in SUBSET (1..n) :
         /\ assessments = ContextStore(kinds)
         /\ responses = ResponsesTo(ContextStore(kinds), answered)
  /\ req = [r \in Reqs |-> Idle]
  /\ nreq = 0
  /\ concerns = InitialConcerns
  /\ tiktoken = [loads |-> TRUE, encodingCache |-> FALSE]

\* one generation request of u1 for h1, up to the built context
ContextNext ==
  \/ nreq = 0 /\ StartGenerate("r1", "u1", "h1")
  \/ CooldownCheck("r1")
  \/ FetchHealthConcern("r1")
  \/ FetchUser("r1")
  \/ FetchPrevious("r1")

SpecContext == InitContext /\ [][ContextNext]_vars

(* -------------------------- service specification --------------------- *)
\* the stores when the run starts: an answered assessment of u1, an assessment
\* of u2 and a deactivated assessment of u1, the last two answered or not
ServiceStore ==
  << Stored("u1", "h1", Scale, TRUE), Stored("u2", "h2", 0, TRUE),
     Stored("u1", "h4", 0, FALSE) >>

InitService ==
  /\ now = (MaxStored + 1) \div 2
  /\ assessments = ServiceStore
  /\ \E answered \in {{1}, {1, 2}, {1, 3}} : responses = ResponsesTo(ServiceStore, answered)
  /\ req = [r \in Reqs |-> Idle]
  /\ nreq = 0
  /\ concerns = InitialConcerns
  /\ tiktoken = [loads |-> TRUE, encodingCache |-> FALSE]

\* every operation of the assessment service, one request after the other; the
\* by-id reads ask for the stored documents and for an id that is not stored
ServiceNext ==
  \/ \E u \in ExistingUsers, a \in 1..MaxStored : StartGetAssessment("r1", u, a)
  \/ GetAssessment("r1")
  \/ AttachResponse("r1")
  \/ \E u \in ExistingUsers, i \in 1..MaxStored : StartGetResponse("r1", u, i)
  \/ GetResponse("r1")
  \/ \E u \in ExistingUsers, h \in {"", "h1"}, page \in 1..2, limit \in {1, 10} :
       StartHistory("r1", u, h, page, limit)
  \/ History("r1")
  \/ \E p \in OwnedPairs : StartCanGenerate("r1", p[1], p[2])
  \/ CheckCanGenerate("r1")
  \/ \E p \in OwnedPairs : StartGenerate("r1", p[1], p[2])
  \/ CooldownCheck("r1")
  \/ FetchHealthConcern("r1")
  \/ FetchUser("r1")
  \/ FetchPrevious("r1")
  \/ LLMIssue("r1")
  \/ \E resp \in FewResponses : LLMRespond("r1", resp)
  \/ SaveAssessment("r1")
  \/ \E u \in ExistingUsers, a \in AssessmentIds, sub \in Submissions :
       StartSubmit("r1", u, a, sub)
  \/ FetchAssessment("r1")
  \/ CheckExisting("r1")
  \/ SaveResponse("r1")
  \/ \E d \in TickSteps : Tick(d)

SpecService == InitService /\ [][ServiceNext]_vars

(* ----------------------- health concern specification ----------------- *)
\* deletions of health concerns and generation requests, one after the other
ConcernNext ==
  \/ \E u \in ExistingUsers, h \in {"h1", "h2", "h0"} :
       StartDeleteHealthConcern("r1", u, h)
  \/ FindConcernToDelete("r1")
  \/ softDelete("r1")
  \/ \E p \in OwnedPairs : StartGenerate("r1", p[1], p[2])
  \/ CooldownCheck("r1")
  \/ FetchHealthConcern("r1")
  \/ FetchUser("r1")
  \/ FetchPrevious("r1")
  \/ LLMIssue("r1")
  \/ \E resp \in FewResponses : LLMRespond("r1", resp)
  \/ SaveAssessment("r1")

SpecConcern == Init /\ [][ConcernNext]_vars

(* ------------------------- cleaner specification ----------------------- *)
Leaves == {Str("x"), Whole(1)}

\* the objects whose keys are among the given ones, in that order, and whose
\* values are among the given ones
RECURSIVE ObjectsOver(_, _)
ObjectsOver(keys, values) ==
  IF Len(keys) = 0 THEN {<<>>}
  ELSE LET rest == ObjectsOver(Tail(keys), values)
       IN rest \cup {<<Entry(keys[1], v)>> \o es : v \in values, es \in rest}

\* flat objects: a name, a credential, an id
FlatObjects == {Obj(es) : es \in ObjectsOver(<<"name", "password", "_id">>, Leaves)}

\* objects that hold a flat object one level down
DeepObjects == {Obj(<<Entry("profile", o)>>) : o \in FlatObjects}

\* lists of flat objects, of leaves and of lists
Lists ==
  {Arr(<<>>)} \cup {Arr(<<v>>) : v \in FlatObjects \cup Leaves}
  \cup {Arr(<<Arr(<<v>>)>>) : v \in FlatObjects}
  \cup {Arr(<<Str("x"), v>>) : v \in FlatObjects}

\* the context objects handed to the cleaner
ContextObjects ==
  {Obj(es) : es \in ObjectsOver(<<"patient">>, Leaves \cup FlatObjects \cup DeepObjects)}
  \cup {Obj(<<Entry("previousAssessments", l)>>) : l \in Lists}
  \cup {Obj(<<Entry("previousAssessments", l), Entry("__v", Whole(1))>>) : l \in Lists}
  \cup {Obj(<<Entry("patient", o), Entry("llmMetadata", o), Entry("allergies", l)>>) :
          o \in DeepObjects, l \in {Arr(<<v>>) : v \in Leaves}}

CleanNext ==
  \/ \E contextData \in ContextObjects : StartClean("r1", contextData)
  \/ Clean("r1")

InitClean ==
  /\ now = 0
  /\ assessments = <<>>
  /\ responses = <<>>
  /\ req = [r \in Reqs |-> Idle]
  /\ nreq = 0
  /\ concerns = InitialConcerns
  /\ tiktoken = [loads |-> TRUE, encodingCache |-> FALSE]

SpecClean == InitClean /\ [][CleanNext]_vars

(* ------------------------------- claims ------------------------------- *)
SubmitDone(r) == req[r].op = "submit" /\ req[r].pc = "done"

\* the request's assessment was active and owned by its user when the request
\* arrived, and its answers are valid
ValidOwned(r) ==
  /\ req[r].ownedAtStart
  /\ validateAnswers(req[r].answers, assessments[req[r].aid].questions).valid

Won(r) == req[r].status = 201 /\ req[r].persisted
LostWithConflict(r) == req[r].status = 409 /\ ~req[r].persisted

C2_LaterRejected ==
  \A r \in Reqs :
    SubmitDone(r) /\ req[r].existedAtStart
      => req[r].status \in {404, 409} /\ ~req[r].persisted

C2_Kept ==
  \A i \in 1..Len(responses) : Len(responses') >= i /\ responses'[i] = responses[i]

\* C2: a submission that starts when a response to its assessment is stored is
\* rejected (404 or 409) and stores nothing, and no step changes or removes a
\* stored response.
C2_NeverOverwritten == []C2_LaterRejected /\ [][C2_Kept]_vars

\* C2 witness: a later submission with other answers ended with 409 and the
\* stored response still holds the first answers
C2_Witness ==
  \E r \in Reqs :
    /\ SubmitDone(r) /\ req[r].existedAtStart /\ req[r].status = 409
    /\ \E i \in 1..Len(responses) :
         /\ responses[i].assessment = req[r].aid
         /\ responses[i].answers # req[r].answers
         /\ responses[i].reportStatus = "pending"

\* the step in which request r evaluates the cooldown gate
GateStep(r) ==
  req[r].pc \in {"cooldown", "can_generate"} /\ req'[r].pc \notin {"cooldown", "can_generate"}

C3_Expected(r) ==
  LET active == {i \in 1..Len(assessments) :
                   /\ assessments[i].user = req[r].user
                   /\ assessments[i].healthConcern = req[r].hc
                   /\ assessments[i].isActive}
  IN IF active = {} THEN req'[r].gate.allowed
     ELSE \E i \in active :
            /\ \A j \in active : assessments[j].createdAt <= assessments[i].createdAt
            /\ req'[r].gate.allowed
                 = (((now - assessments[i].createdAt) \div HoursPerDay) * Scale
                      >= assessments[i].minDaysBeforeNextAssessment)

\* C3: the gate allows iff the pair has no active assessment or the whole days
\* elapsed since a most recently created active assessment of the pair reach
\* its minDaysBeforeNextAssessment; nothing else in the store decides.
C3_GateDecision == [][\A r \in Reqs : GateStep(r) => C3_Expected(r)]_vars

\* C3 witness: the gate denied on the latest assessment although an older
\* active assessment of the pair, with no cooldown left, is stored
C3_Witness ==
  \E r \in Reqs :
    /\ req[r].pc = "done" /\ req[r].op = "can_generate"
    /\ ~req[r].gate.allowed /\ req[r].gate.lastAssessmentDate > 0
    /\ \E i \in 1..Len(assessments) :
         /\ assessments[i].user = req[r].user /\ assessments[i].healthConcern = req[r].hc
         /\ assessments[i].isActive /\ assessments[i].createdAt = 0
         /\ assessments[i].minDaysBeforeNextAssessment = 0

\* C4: whenever the gate denies, daysRemaining is minDays minus the whole days
\* elapsed, it is at least 1 (one day is Scale), and lastAssessmentDate is the
\* creation time of the blocking assessment.
C4_DaysRemaining ==
  [][\A r \in Reqs :
       GateStep(r) /\ ~req'[r].gate.allowed
         => /\ req'[r].gate.daysRemaining >= Scale
            /\ \E i \in findLatestByUserAndConcern(req[r].user, req[r].hc) :
                 /\ i # 0
                 /\ req'[r].gate.lastAssessmentDate = assessments[i].createdAt
                 /\ req'[r].gate.daysRemaining
                      = assessments[i].minDaysBeforeNextAssessment
                          - ((now - assessments[i].createdAt) \div HoursPerDay) * Scale]_vars

\* C5: a generation request whose cooldown check denied has ended with 409 and
\* the remaining-days reason, without building a context, calling the LLM or
\* storing an assessment.
C5_DeniedFailsClosed ==
  \A r \in Reqs :
    req[r].op = "generate" /\ req[r].pc # "cooldown" /\ ~req[r].gate.allowed
      => /\ req[r].pc = "done" /\ req[r].status = 409
         /\ req[r].err.message = req[r].gate.reason /\ req[r].gate.daysRemaining > 0
         /\ ~req[r].ctxBuilt /\ req[r].calls = 0 /\ ~req[r].persisted

\* C5 witness: a generation request denied by the gate
C5_Witness ==
  \E r \in Reqs :
    /\ req[r].op = "generate" /\ req[r].pc = "done" /\ req[r].status = 409
    /\ ~req[r].gate.allowed /\ req[r].gate.daysRemaining > 0

C6_Order ==
  \A r \in Reqs :
    req[r].op = "generate"
      => /\ req[r].pc = "done" /\ req[r].status # 201 => ~req[r].persisted
         /\ req[r].pc = "save" \/ req[r].persisted
              => /\ req[r].gate.allowed /\ req[r].ctxBuilt /\ req[r].calls >= 1
                 /\ req[r].thrown = NoThrown /\ req[r].validated
                 /\ validateLLMResponse(req[r].data) = ""

C6_OnlySaveWrites ==
  assessments' # assessments
    => /\ Len(assessments') = Len(assessments) + 1
       /\ SubSeq(assessments', 1, Len(assessments)) = assessments
       /\ \E r \in Reqs :
            /\ req[r].pc = "save" /\ req[r].validated /\ req[r].gate.allowed
            /\ req'[r].pc = "done" /\ req'[r].status = 201 /\ req'[r].persisted

\* C6: an assessment is written only by the save step of a request that passed
\* the cooldown check, got parsed LLM output and had it accepted by
\* _validateLLMResponse; a request that fails, at whatever step, stores nothing
\* and no step of it changes the stored assessments.
C6_PersistLast == []C6_Order /\ [][C6_OnlySaveWrites]_vars

\* C6 witness: a request that passed every check and failed at the storage
\* validation, with nothing stored
C6_Witness ==
  \E r \in Reqs :
    /\ req[r].op = "generate" /\ req[r].pc = "done" /\ req[r].validated
    /\ req[r].err.name = "ValidationError" /\ req[r].status = 400
    /\ ~req[r].persisted /\ assessments \in InitialStores

\* C7: nothing guards the save of a generated assessment: whatever is stored
\* for the pair, the save of schema-valid data appends the assessment, so two
\* requests that both passed the gate both persist.
C7_SaveNotGuarded ==
  [][\A r \in Reqs :
       req[r].pc = "save" /\ req'[r].pc = "done" /\ AssessmentSchemaValid(req[r].data)
         => /\ assessments' = Append(assessments, NewAssessment(req[r]))
            /\ req'[r].status = 201]_vars

\* C7 witness: from the empty store, two requests for the same pair both
\* persisted; the second assessment lies within the cooldown of the first
C7_Witness ==
  /\ Len(assessments) = 2
  /\ \A r \in Reqs : req[r].op = "generate" /\ req[r].persisted
                      /\ req[r].user = "u1" /\ req[r].hc = "h1"
  /\ \A i \in 1..2 : assessments[i].user = "u1" /\ assessments[i].healthConcern = "h1"
                      /\ assessments[i].isActive
  /\ ((assessments[2].createdAt - assessments[1].createdAt) \div HoursPerDay) * Scale
       < assessments[1].minDaysBeforeNextAssessment

\* C8: a request makes at most maxRetries calls; a 401 or a context-length
\* failure ends it at once; a 429/503/500/502 failure leads to a backoff and
\* another call while calls remain and ends the request after the last one.
C8_BoundedRetries ==
  \A r \in Reqs :
    LET q == req[r]
    IN /\ q.calls <= maxRetries
       /\ q.thrown.status = 401 \/ q.thrown.code = "context_length_exceeded"
            => q.pc = "done" /\ q.status = 500 /\ ~q.persisted
       /\ q.thrown.status \in {429, 503, 500, 502}
            => IF q.calls < maxRetries THEN q.pc \in {"llm_backoff", "llm_call"}
               ELSE q.pc = "done" /\ q.status = 500 /\ ~q.persisted
       /\ q.pc = "llm_backoff" => q.thrown.status \in {429, 503, 500, 502}

\* C8 witness: the last of maxRetries calls was answered 503 and the request failed
C8_Witness ==
  \E r \in Reqs :
    req[r].pc = "done" /\ req[r].calls = maxRetries /\ req[r].thrown.status = 503

Refused(q) ==
  \E c \in Completions :
    c.refusal # "" /\ q.thrown.message = "OpenAI refused: " \o c.refusal

EmptyOrRefused(q) == Refused(q) \/ q.thrown.message = "OpenAI returned empty content"

\* C9: an empty or refused answer is retried like a transient error: while
\* attempts remain the request goes on (backoff, then another call) and it
\* fails only when none remains.
C9_EmptyOrRefusalRetried ==
  \A r \in Reqs :
    EmptyOrRefused(req[r]) /\ req[r].calls < maxRetries
      => req[r].pc \in {"llm_backoff", "llm_call", "llm_wait"}

\* C10: a request that entered the gateway eventually leaves it, with parsed
\* output or with an error.
C10_LLMCallTerminates ==
  \A r \in Reqs : (req[r].pc = "llm_call") ~> (req[r].pc \in {"save", "done"})

\* what the specification requires of a parsed LLM output
WellFormed(data) ==
  /\ data.severity \in {"low", "moderate", "high"}
  /\ data.min_days_before_next_assessment.k = "num"
  /\ data.min_days_before_next_assessment.n >= 0
  /\ data.min_days_before_next_assessment.n % Scale = 0
  /\ data.questions.isArray /\ Len(data.questions.items) > 0
  /\ \A i \in 1..Len(data.questions.items) :
       /\ data.questions.items[i].id # ""
       /\ data.questions.items[i].type # ""
       /\ data.questions.items[i].label # ""

\* C11: a parsed LLM output is accepted by the ResponseValidate step iff its
\* severity is low/moderate/high, its day count is a non-negative integer and
\* its questions are a non-empty array of entries with id, type and label; a
\* rejected output ends the request with an error and nothing is persisted.
C11_AcceptsIffWellFormed ==
  \A r \in Reqs :
    req[r].op = "generate" /\ req[r].data # NoData
      => /\ req[r].validated <=> WellFormed(req[r].data)
         /\ ~req[r].validated
              => req[r].pc = "done" /\ req[r].status = 500 /\ ~req[r].persisted

(* ------------------------- answer validation -------------------------- *)
\* the submission of r has been through validateAnswers
Checked(r) ==
  /\ req[r].op = "submit"
  /\ req[r].validated \/ (req[r].pc = "done" /\ req[r].status = HTTP_CODES.BAD_REQUEST)

\* the questions the answers of r were validated against
QuestionsOf(r) == assessments[req[r].aid].questions

AnsweredIds(r) == {req[r].answers[i].questionId : i \in 1..Len(req[r].answers)}

\* how many entries of a list of texts lie in a set of texts
Count(texts, set) == Cardinality({i \in 1..Len(texts) : texts[i] \in set})

\* every question id and answer id in use
KnownIds ==
  {QuestionsOf("r1")[i].id : i \in 1..Len(QuestionsOf("r1"))}
  \cup {a.questionId : a \in AnswerPool}

RequiredNotAnswered(id) == "Required question not answered: " \o id

\* the indices of the required questions no answer names
Unanswered(r) ==
  {i \in 1..Len(QuestionsOf(r)) :
     QuestionsOf(r)[i].required /\ QuestionsOf(r)[i].id \notin AnsweredIds(r)}

\* C12: the errors of validateAnswers hold exactly one "required question not
\* answered" entry, naming the id, for every required question whose id no
\* answer carries, and none for an optional or an answered question, whatever
\* the other answers are.
C12_RequiredNotAnswered ==
  \A r \in Reqs :
    Checked(r) =>
      /\ \A i \in 1..Len(QuestionsOf(r)) :
           Count(req[r].errors, {RequiredNotAnswered(QuestionsOf(r)[i].id)})
             = IF i \in Unanswered(r) THEN 1 ELSE 0
      /\ Count(req[r].errors, {RequiredNotAnswered(id) : id \in KnownIds})
           = Cardinality(Unanswered(r))

\* q1 required numeric 0..10 and q2 optional long_text with no answers: exactly
\* one error, naming q1
C12_Witness ==
  /\ Checked("r1")
  /\ QuestionsOf("r1") = PersistQuestions(StdQuestions)
  /\ req["r1"].answers = <<>>
  /\ req["r1"].errors = <<RequiredNotAnswered("q1")>>
  /\ ~req["r1"].validated
\* the questions carrying the id of an answer
Located(r, answer) ==
  {i \in 1..Len(QuestionsOf(r)) : QuestionsOf(r)[i].id = answer.questionId}

Unknown(r, answer) == Located(r, answer) = {}

\* the question an answer is checked against: the first with its id
LocatedQuestion(r, answer) ==
  QuestionsOf(r)[CHOOSE i \in Located(r, answer) : \A j \in Located(r, answer) : i <= j]

Mismatched(r, answer) ==
  ~Unknown(r, answer) /\ answer.questionType # LocatedQuestion(r, answer).type

\* the one error an answer may produce, "" for none: only the unknown-question
\* error, else only the type-mismatch error, else that of its value check
OneError(r, answer) ==
  IF Unknown(r, answer)
  THEN "Answer provided for unknown question: " \o answer.questionId
  ELSE IF Mismatched(r, answer)
  THEN "Answer type mismatch for question " \o answer.questionId
  ELSE validateAnswer(answer, LocatedQuestion(r, answer))

\* the errors after those of the unanswered required questions
AnswerErrors(r) ==
  SubSeq(req[r].errors, Cardinality(Unanswered(r)) + 1, Len(req[r].errors))

\* C13: each answer produces at most one error; an answer to no question
\* produces only the unknown-question error and an answer of another type than
\* its question only the type-mismatch error, without any check of its value,
\* and the answers after it are still validated: the errors of the answers are,
\* in order, the one error of every answer that has one.
C13_OneErrorPerAnswer ==
  \A r \in Reqs :
    Checked(r) =>
      AnswerErrors(r) =
        SelectSeq([i \in 1..Len(req[r].answers) |-> OneError(r, req[r].answers[i])],
                  NonEmptyText)

\* a slider answer of 99 to the numeric question q1 (0..10) followed by an
\* answer to no question: one mismatch error, no range error, and the second
\* answer is still reported
C13_Witness ==
  /\ Checked("r1")
  /\ QuestionsOf("r1") = PersistQuestions(StdQuestions)
  /\ req["r1"].answers = << Answer("q1", "rating_slider", Whole(99)),
                            Answer("zz", "numeric", Whole(99)) >>
  /\ req["r1"].errors = << "Answer type mismatch for question q1",
                           "Answer provided for unknown question: zz" >>
\* every error text that names a question
ErrorsAbout(q) ==
  { "Answer type mismatch for question " \o q.id,
    "Answer for " \o q.id \o " must be a string",
    "Answer for " \o q.id \o " is required",
    "Answer for " \o q.id \o " must be a single option",
    "Invalid option for " \o q.id,
    "Answer for " \o q.id \o " must be an array",
    "At least one option required for " \o q.id,
    "Invalid option in " \o q.id,
    "Answer for " \o q.id \o " must be a number",
    "Answer for " \o q.id \o " must be at least " \o String(q.min),
    "Answer for " \o q.id \o " must be at most " \o String(q.max),
    "Answer for " \o q.id \o " must be a string option",
    "Invalid rating for " \o q.id,
    "Slider value for " \o q.id \o " must be at least " \o String(q.min),
    "Slider value for " \o q.id \o " must be at most " \o String(q.max),
    "Unknown question type: " \o q.type }

\* the answers of r that are the only answer to a question of their own type
SoleAnswers(r) ==
  {i \in 1..Len(req[r].answers) :
     /\ ~Unknown(r, req[r].answers[i])
     /\ ~Mismatched(r, req[r].answers[i])
     /\ \A j \in 1..Len(req[r].answers) :
          req[r].answers[j].questionId = req[r].answers[i].questionId => j = i}

\* the validator reported, or did not report, the answer to question q
Rejected(r, q) == \E e \in ErrorsAbout(q) : Count(req[r].errors, {e}) > 0
Accepted(r, q) == ~Rejected(r, q)

\* C14: a numeric value v answered to a numeric, rating_numeric or
\* rating_slider question that has min and max is rejected when v < min or
\* v > max and accepted when min <= v <= max, v = min and v = max included.
C14_RangeInclusive ==
  \A r \in Reqs :
    Checked(r) =>
      \A i \in SoleAnswers(r) :
        LET q == LocatedQuestion(r, req[r].answers[i])
            v == req[r].answers[i].value
        IN /\ q.type \in {"numeric", "rating_numeric", "rating_slider"}
           /\ q.min.k = "num" /\ q.max.k = "num" /\ v.k = "num"
           => /\ v.n < q.min.n \/ v.n > q.max.n => Rejected(r, q)
              /\ q.min.n <= v.n /\ v.n <= q.max.n => Accepted(r, q)

\* rating 1 on the scale 1..5 (its minimum) is accepted and slider value 4 on
\* 0..3 is refused
C14_Witness ==
  /\ Checked("r1")
  /\ QuestionsOf("r1") = PersistQuestions(RangeQuestions)
  /\ req["r1"].answers = << Answer("q7", "rating_numeric", Whole(1)),
                            Answer("q8", "rating_slider", Whole(4)) >>
  /\ req["r1"].errors = << "Slider value for q8 must be at most 3" >>
\* a value that is one thing, text or number, and not a list
Scalar(v) == v.k \in {"str", "num"}

\* the value equals, as text, the value of one of the question's options
MatchesOption(v, q) ==
  \E i \in 1..Len(q.options.items) : String(v) = String(q.options.items[i].value)

HasOptions(q) == q.options.defined /\ Len(q.options.items) > 0

\* C15: for a single_choice or multi_choice question with options, an answer
\* value (each element of the list, for multi_choice) that equals no option
\* value as text is rejected, and one that equals an option value as text is
\* accepted, also when the option value is the number 2 and the answer "2".
C15_ChoiceAsText ==
  \A r \in Reqs :
    Checked(r) =>
      \A i \in SoleAnswers(r) :
        LET q == LocatedQuestion(r, req[r].answers[i])
            v == req[r].answers[i].value
        IN /\ q.type = "single_choice" /\ HasOptions(q) /\ Scalar(v)
              => IF MatchesOption(v, q) THEN Accepted(r, q) ELSE Rejected(r, q)
           /\ q.type = "multi_choice" /\ HasOptions(q) /\ v.k = "arr" /\ Len(v.a) > 0
              => IF \A j \in 1..Len(v.a) : MatchesOption(v.a[j], q)
                 THEN Accepted(r, q) ELSE Rejected(r, q)

\* C16: a single_choice, rating_likert or rating_frequency answer whose value
\* is one scalar, text or number, equal as text to the value of one option is
\* accepted; the number 2 against the option value 2 is valid.
C16_ScalarAccepted ==
  \A r \in Reqs :
    Checked(r) =>
      \A i \in SoleAnswers(r) :
        LET q == LocatedQuestion(r, req[r].answers[i])
            v == req[r].answers[i].value
        IN /\ q.type \in {"single_choice", "rating_likert", "rating_frequency"}
           /\ HasOptions(q) /\ Scalar(v) /\ MatchesOption(v, q)
           => Accepted(r, q)
\* the answers of r that fail their checks
FailingAnswers(r) ==
  {i \in 1..Len(req[r].answers) : OneError(r, req[r].answers[i]) # ""}

\* C17: validateAnswers returns valid = true exactly when its errors list is
\* empty, and it does not stop at the first error: the list has one entry for
\* every unanswered required question and one for every failing answer.
C17_ValidIffNoErrors ==
  \A r \in Reqs :
    Checked(r) =>
      /\ req[r].validated <=> req[r].errors = <<>>
      /\ Len(req[r].errors) = Cardinality(Unanswered(r)) + Cardinality(FailingAnswers(r))

\* a number answered to the long_text question q2 and nothing to the required
\* q1: both problems are reported at once
C17_Witness ==
  /\ Checked("r1")
  /\ QuestionsOf("r1") = PersistQuestions(StdQuestions)
  /\ req["r1"].answers = << Answer("q2", "long_text", Whole(1)) >>
  /\ req["r1"].errors = << RequiredNotAnswered("q1"), "Answer for q2 must be a string" >>
  /\ ~req["r1"].validated
(* --------------------------- submission guard ------------------------- *)
\* the step in which the submission of r looks its assessment up
LookupStep(r) ==
  req[r].op = "submit" /\ req[r].pc = "fetch_assessment" /\ req'[r].pc # "fetch_assessment"

Missing(aid) == aid \notin 1..Len(assessments)
Inactive(aid) == ~Missing(aid) /\ ~assessments[aid].isActive
ForeignTo(aid, user) == ~Missing(aid) /\ assessments[aid].user # user

\* C18: a submission for an assessment that does not exist, is inactive or
\* belongs to another user than the caller ends with 'not found' (404, never
\* 403) and persists no response.
C18_NotFound ==
  [][\A r \in Reqs :
       /\ LookupStep(r)
       /\ Missing(req[r].aid) \/ Inactive(req[r].aid) \/ ForeignTo(req[r].aid, req[r].user)
       => /\ req'[r].pc = "done"
          /\ req'[r].status = HTTP_CODES.NOT_FOUND
          /\ req'[r].err.message = "Assessment not found"
          /\ ~req'[r].persisted
          /\ responses' = responses]_vars

\* u1 was refused its own deactivated assessment and u2 the assessment of u1
C18_Witness ==
  /\ req["r1"].op = "submit" /\ req["r1"].user = "u1" /\ Inactive(req["r1"].aid)
  /\ req["r2"].op = "submit" /\ req["r2"].user = "u2" /\ req["r2"].aid = req["r1"].aid
  /\ \A r \in Reqs : req[r].pc = "done" /\ req[r].status = HTTP_CODES.NOT_FOUND
  /\ responses = <<>>
\* C19: every persisted response has the user and the health concern of the
\* assessment it references, and was created with reportStatus pending.
C19_ResponseMatchesAssessment ==
  \A i \in 1..Len(responses) :
    /\ responses[i].assessment \in 1..Len(assessments)
    /\ responses[i].user = assessments[responses[i].assessment].user
    /\ responses[i].healthConcern = assessments[responses[i].assessment].healthConcern
    /\ responses[i].reportStatus = "pending"

\* the owner's response is stored and another user's submission for the same
\* assessment was turned away
C19_Witness ==
  /\ Len(responses) = 1
  /\ req["r1"].op = "submit" /\ req["r1"].persisted
  /\ responses[1].assessment = req["r1"].aid /\ responses[1].user = req["r1"].user
  /\ req["r2"].op = "submit" /\ req["r2"].aid = req["r1"].aid
  /\ req["r2"].user # req["r1"].user
  /\ req["r2"].pc = "done" /\ req["r2"].status = HTTP_CODES.NOT_FOUND
(* ----------------------------- report trigger ------------------------- *)
\* C20: the report trigger is decoupled from the submission: once the response
\* is saved, a failure of the trigger does not fail the submission and the
\* caller receives the persisted response (201).
C20_TriggerDecoupled ==
  \A r \in Reqs :
    req[r].op = "submit" /\ req[r].persisted
      => req[r].pc = "done" /\ req[r].status = HTTP_CODES.CREATED
(* ---------------------------- context budget -------------------------- *)
\* count(text): the size of a text in the unit the budgeter counts in
UnitCount(text) ==
  IF tiktoken.loads THEN Len(Encode(text)) ELSE (Len(text) + 3) \div 4

\* the first n units of a text
FirstUnits(text, n) ==
  IF tiktoken.loads
  THEN Decode(SubSeq(Encode(text), 1, n))
  ELSE SubSeq(text, 1, 4 * n)

\* C21: optimizeContext(text, budget) returns the text unchanged with
\* wasTruncated = false when count(text) <= budget, and otherwise exactly the
\* first budget units of the text followed by the truncation marker with
\* wasTruncated = true; a repeated call on the same input gives the same output.
C21_OptimizeContext ==
  \A r \in Reqs :
    req[r].op = "optimize" =>
      /\ \A i \in 1..Len(req[r].optimized) :
           LET out == req[r].optimized[i]
           IN IF UnitCount(req[r].ctxText) <= req[r].maxTokens
              THEN out.text = req[r].ctxText /\ ~out.wasTruncated
              ELSE /\ out.text = FirstUnits(req[r].ctxText, req[r].maxTokens)
                                   \o <<"\n\n[Context truncated due to length...]">>
                   /\ out.wasTruncated
      /\ \A i, j \in 1..Len(req[r].optimized) : req[r].optimized[i] = req[r].optimized[j]

\* the five-character text a,b,a,b,c has three tokens: with a budget of three
\* it comes back unchanged, twice
C21_Witness ==
  /\ req["r1"].op = "optimize" /\ tiktoken.loads
  /\ req["r1"].ctxText = <<"a", "b", "a", "b", "c">> /\ req["r1"].maxTokens = 3
  /\ Len(req["r1"].optimized) = 2
  /\ req["r1"].optimized[2].text = req["r1"].ctxText
  /\ ~req["r1"].optimized[2].wasTruncated
(* -------------------------- generation context ------------------------ *)
\* the active assessments of the pair a generation request is for
OwnActive(r) ==
  {i \in 1..Len(assessments) :
     /\ assessments[i].user = req[r].user
     /\ assessments[i].healthConcern = req[r].hc
     /\ assessments[i].isActive}

\* all that the context may tell of an assessment
Summary(i) ==
  [createdAt |-> assessments[i].createdAt,
   severity |-> assessments[i].severity,
   questionCount |-> Len(assessments[i].questions),
   hasResponse |-> \E j \in 1..Len(responses) : responses[j].assessment = i]

\* C22: the generation context holds at most 3 assessments, the most recently
\* created active ones of the request's (user, health concern) pair, and of
\* each only createdAt, severity, the question count and hasResponse, true
\* exactly when a response to it exists; neither a question nor an answer is
\* in the context.
C22_ContextPrevious ==
  [][\A r \in Reqs :
       req[r].pc = "fetch_previous" /\ req'[r].pc # "fetch_previous"
       => LET ctx == req'[r].context
              prev == ctx.previousAssessments
              own == OwnActive(r)
          IN /\ DOMAIN ctx = {"patient", "healthConcern", "previousAssessments"}
             /\ Len(prev) <= 3
             /\ Len(prev) = 3 \/ Len(prev) = Cardinality(own)
             /\ \A j \in 1..Len(prev) :
                  DOMAIN prev[j] = {"createdAt", "severity", "questionCount", "hasResponse"}
             /\ \E f \in [1..Len(prev) -> own] :
                  /\ \A i, j \in 1..Len(prev) : i # j => f[i] # f[j]
                  /\ \A j \in 1..Len(prev) : prev[j] = Summary(f[j])
                  /\ \A e \in own \ {f[j] : j \in 1..Len(prev)} :
                       \A j \in 1..Len(prev) :
                         assessments[e].createdAt <= assessments[f[j]].createdAt]_vars

\* four active assessments of the pair are stored, the oldest is left out of
\* the context, and the context tells an answered one from an unanswered one
C22_Witness ==
  /\ req["r1"].op = "generate" /\ req["r1"].pc = "llm_call"
  /\ Cardinality(OwnActive("r1")) = 4
  /\ Len(req["r1"].context.previousAssessments) = 3
  /\ req["r1"].context.previousAssessments[1].createdAt = 2
  /\ req["r1"].context.previousAssessments[3].createdAt = 1
  /\ req["r1"].context.previousAssessments[1].hasResponse
  /\ ~req["r1"].context.previousAssessments[2].hasResponse
(* ---------------------------- context cleaning ------------------------ *)
SensitiveKeys ==
  {"password", "refreshToken", "accessToken", "__v", "llmMetadata", "reportPayload"}

\* no sensitive key anywhere in a value
RECURSIVE NoSensitiveKey(_)
NoSensitiveKey(v) ==
  IF v.k = "obj"
  THEN \A i \in 1..Len(v.a) :
         v.a[i].key \notin SensitiveKeys /\ NoSensitiveKey(v.a[i].value)
  ELSE IF v.k = "arr" THEN \A i \in 1..Len(v.a) : NoSensitiveKey(v.a[i])
  ELSE TRUE

NotSensitive(entry) == entry.key \notin SensitiveKeys

\* a value with the entries of sensitive key taken out at every depth and
\* every other key and value left as it is
RECURSIVE Stripped(_)
Stripped(v) ==
  IF v.k = "obj"
  THEN LET kept == SelectSeq(v.a, NotSensitive)
       IN Obj([i \in 1..Len(kept) |-> Entry(kept[i].key, Stripped(kept[i].value))])
  ELSE IF v.k = "arr" THEN Arr([i \in 1..Len(v.a) |-> Stripped(v.a[i])])
  ELSE v

\* C23: at every depth, inside nested objects and inside list elements, the
\* output of cleanContext has none of the keys password, refreshToken,
\* accessToken, __v, llmMetadata, reportPayload, and every other key and value
\* of the context object is preserved.
C23_CleanedAndPreserved ==
  \A r \in Reqs :
    req[r].op = "clean" /\ req[r].pc = "done"
      => NoSensitiveKey(req[r].cleaned) /\ req[r].cleaned = Stripped(req[r].raw)

\* C24: every stored assessment keeps the per-type question invariant: a
\* question of type single_choice, multi_choice, rating_likert or
\* rating_frequency has a non-empty options list, and a question of type
\* numeric, rating_numeric or rating_slider has both min and max set.
OptionTypes == {"single_choice", "multi_choice", "rating_likert", "rating_frequency"}

RangeTypes == {"numeric", "rating_numeric", "rating_slider"}

QuestionInvariant(question) ==
  /\ question.type \in OptionTypes => Len(question.options.items) > 0
  /\ question.type \in RangeTypes => question.min.k = "num" /\ question.max.k = "num"

C24_QuestionInvariant ==
  \A i \in 1..Len(assessments) :
    \A j \in 1..Len(assessments[i].questions) :
      QuestionInvariant(assessments[i].questions[j])

\* C25: a stored assessment is immutable. No step of any operation (generation,
\* submission, cooldown check, history and by-id reads) changes the user,
\* healthConcern, severity, minDaysBeforeNextAssessment or questions of a
\* stored assessment or removes it, and a step of the cooldown check changes
\* no stored state at all.
SameContent(a, b) ==
  /\ a.user = b.user
  /\ a.healthConcern = b.healthConcern
  /\ a.severity = b.severity
  /\ a.minDaysBeforeNextAssessment = b.minDaysBeforeNextAssessment
  /\ a.questions = b.questions

GateChecked(r) ==
  /\ req[r].pc \in {"cooldown", "can_generate"}
  /\ req'[r].pc # req[r].pc

C25_AssessmentImmutable ==
  [][ /\ Len(assessments') >= Len(assessments)
      /\ \A i \in 1..Len(assessments) : SameContent(assessments'[i], assessments[i])
      /\ (\E r \in Reqs : GateChecked(r))
           => UNCHANGED <<assessments, responses, concerns>> ]_vars

\* a second assessment of a pair has been generated and stored, and a later
\* cooldown check has been answered
C25_Witness ==
  /\ \E i, j \in 1..Len(assessments) :
       /\ i < j
       /\ assessments[i].user = assessments[j].user
       /\ assessments[i].healthConcern = assessments[j].healthConcern
  /\ req["r1"].op = "can_generate" /\ req["r1"].pc = "done"

\* C26: getAssessmentById and getResponseById are owner-only. A finished call
\* returned the resource exactly when the resource existed and its user was
\* the caller; every other call failed with the same 'not found' error, whether
\* the resource existed with another owner or did not exist.
GotById(r) ==
  req[r].pc = "done" /\ req[r].op \in {"get_assessment", "get_response"}

Asked(r) == IF req[r].op = "get_assessment" THEN req[r].aid ELSE req[r].rid

OwnerOf(r) ==
  IF req[r].op = "get_assessment" THEN assessments[req[r].found].user
  ELSE responses[req[r].found].user

NotFoundOf(r) ==
  createNotFoundError(IF req[r].op = "get_assessment" THEN "Assessment not found"
                      ELSE "Assessment response not found")

C26_OwnerOnly ==
  \A r \in Reqs :
    GotById(r) =>
      IF req[r].ownedAtStart
      THEN /\ req[r].status = HTTP_CODES.OK
           /\ req[r].found = Asked(r)
           /\ OwnerOf(r) = req[r].user
      ELSE /\ req[r].err = NotFoundOf(r)
           /\ req[r].status = HTTP_CODES.NOT_FOUND
           /\ req[r].found = 0

\* a caller asked for a resource of another user and got the answer
C26_Witness ==
  \E r \in Reqs : GotById(r) /\ req[r].existedAtStart /\ ~req[r].ownedAtStart

\* C27: a response is stored only after validateAnswers accepted its answers.
\* A submission whose answers have validation errors ends with the 400 error
\* that lists the messages and stores nothing; so every stored response
\* answers every required question of its assessment, and each of its answers
\* names a question of that assessment and carries that question's type.
AnswersRequired(response) ==
  LET questions == assessments[response.assessment].questions
  IN \A j \in 1..Len(questions) :
       questions[j].required
         => \E k \in 1..Len(response.answers) :
              response.answers[k].questionId = questions[j].id

AnswersMatch(response) ==
  LET questions == assessments[response.assessment].questions
  IN \A k \in 1..Len(response.answers) :
       \E j \in 1..Len(questions) :
         /\ questions[j].id = response.answers[k].questionId
         /\ questions[j].type = response.answers[k].questionType

InvalidSubmission(r) ==
  req[r].op = "submit" /\ req[r].pc = "done" /\ Len(req[r].errors) > 0

C27_PersistedAfterValid ==
  /\ \A r \in Reqs :
       InvalidSubmission(r)
         => /\ req[r].status = HTTP_CODES.BAD_REQUEST
            /\ req[r].err = createBadRequestError("Answer validation failed: "
                                                   \o Join(req[r].errors))
            /\ ~req[r].persisted
            /\ \A i \in 1..Len(responses) :
                 responses[i].assessment = req[r].aid
                   => responses[i].answers # req[r].answers
  /\ \A i \in 1..Len(responses) :
       AnswersRequired(responses[i]) /\ AnswersMatch(responses[i])

\* a submission with two validation errors has been refused
C27_Witness ==
  \E r \in Reqs : InvalidSubmission(r) /\ Len(req[r].errors) = 2 /\ Len(responses) = 0

\* C28: every stored assessment references a health concern of its own user.
\* A generation request for a health concern that does not exist or belongs to
\* another user ends with 'Health concern not found', has made no call to the
\* LLM and has stored nothing.
NotOwnConcern(r) ==
  req[r].hc \notin ConcernIds \/ concerns[req[r].hc].user # req[r].user

GenerateDone(r) == req[r].op = "generate" /\ req[r].pc = "done"

C28_ConcernOwned ==
  /\ \A i \in 1..Len(assessments) :
       /\ assessments[i].healthConcern \in ConcernIds
       /\ concerns[assessments[i].healthConcern].user = assessments[i].user
  /\ \A r \in Reqs :
       GenerateDone(r) /\ NotOwnConcern(r)
         => /\ req[r].err = createNotFoundError("Health concern not found")
            /\ req[r].status = HTTP_CODES.NOT_FOUND
            /\ req[r].calls = 0
            /\ ~req[r].persisted

\* a request for the health concern of another user has been answered
C28_Witness ==
  \E r \in Reqs : GenerateDone(r) /\ req[r].hc \in ConcernIds /\ NotOwnConcern(r)

\* C29: a generation request that arrives after its health concern has been
\* soft-deleted stores no assessment: it ends with 'Health concern not found'.
C29_DeletedConcernNotFound ==
  \A r \in Reqs :
    GenerateDone(r) /\ req[r].deletedAtStart
      => /\ ~req[r].persisted
         /\ req[r].err = createNotFoundError("Health concern not found")

\* C30: option membership is checked only for a question that defines options.
\* A text answer to a stored single_choice, rating_likert or rating_frequency
\* question whose options list is empty is accepted.
C30_NoOptionsAccepted ==
  \A r \in Reqs :
    Checked(r) =>
      \A i \in SoleAnswers(r) :
        LET q == LocatedQuestion(r, req[r].answers[i])
            v == req[r].answers[i].value
        IN /\ q.type \in {"single_choice", "rating_likert", "rating_frequency"}
           /\ Len(q.options.items) = 0 /\ v.k = "str"
           => Accepted(r, q)
====
